---- MODULE Spec2Model ----
(***************************************************************************)
(* A model of vibeGraphql: the lexer, the recursive-descent parser, the    *)
(* resolver registries and the executor.  Source text is a sequence of     *)
(* bytes (integers 0..255); a Go string is the sequence of its bytes.      *)
(***************************************************************************)
EXTENDS Integers, Sequences, FiniteSets, TLC

(***************************************************************************)
(* Bytes the lexer switches on.                                            *)
(***************************************************************************)
Ch ==
    [nul |-> 0, tab |-> 9, lf |-> 10, cr |-> 13, space |-> 32, bang |-> 33,
     quote |-> 34, dollar |-> 36, lparen |-> 40, rparen |-> 41, comma |-> 44,
     colon |-> 58, semicolon |-> 59, assign |-> 61, lbracket |-> 91,
     rbracket |-> 93, underscore |-> 95, lbrace |-> 123, rbrace |-> 125]

(* The token types of token.go. *)
TokenType ==
    [ILLEGAL |-> "ILLEGAL", EOF |-> "EOF", IDENT |-> "IDENT", INT |-> "INT",
     STRING |-> "STRING", ASSIGN |-> "=", COLON |-> ":", COMMA |-> ",",
     SEMICOLON |-> ";", LPAREN |-> "(", RPAREN |-> ")", LBRACE |-> "{",
     RBRACE |-> "}", LBRACKET |-> "[", RBRACKET |-> "]", DOLLAR |-> "$",
     BANG |-> "!"]

Token(type, literal) == [Type |-> type, Literal |-> literal]

(***************************************************************************)
(* Lexer.  A Lexer is the record of its four fields.                       *)
(***************************************************************************)

(* unicode.IsLetter(rune(ch)) for a byte: the ASCII letters and the        *)
(* letters of the Latin-1 block, which a byte converted to a rune denotes. *)
isLetter(ch) ==
    \/ ch \in 65..90
    \/ ch \in 97..122
    \/ ch \in {170, 181, 186}
    \/ ch \in 192..214
    \/ ch \in 216..246
    \/ ch \in 248..255
    \/ ch = Ch.underscore

isDigit(ch) == 48 <= ch /\ ch <= 57

readChar(l) ==
    [l EXCEPT !.ch = IF l.readPosition >= Len(l.input)
                     THEN 0
                     ELSE l.input[l.readPosition + 1],
              !.position = l.readPosition,
              !.readPosition = l.readPosition + 1]

NewLexer(input) ==
    readChar([input |-> input, position |-> 0, readPosition |-> 0, ch |-> 0])

RECURSIVE skipWhitespace(_)
skipWhitespace(l) ==
    IF l.ch \in {Ch.space, Ch.tab, Ch.lf, Ch.cr}
    THEN skipWhitespace(readChar(l))
    ELSE l

RECURSIVE readWhile(_, _)
readWhile(l, letters) ==
    IF (letters /\ isLetter(l.ch)) \/ isDigit(l.ch)
    THEN readWhile(readChar(l), letters)
    ELSE l

(* input[start:position] of the lexer l *)
Slice(l, start) == SubSeq(l.input, start + 1, l.position)

(* Let([x \in {e} |-> body]) is body with x naming the value of e: a Go   *)
(* short variable declaration x := e, whose initialiser runs once.        *)
Let(f) == f[CHOOSE x \in DOMAIN f : TRUE]

(* readIdentifier, readNumber and readString return the literal and leave  *)
(* the lexer advanced: [lit, l].                                           *)
readIdentifier(l) ==
    Let([l2 \in {readWhile(l, TRUE)} |->
        [lit |-> Slice(l2, l.position), l |-> l2]])

readNumber(l) ==
    Let([l2 \in {readWhile(l, FALSE)} |->
        [lit |-> Slice(l2, l.position), l |-> l2]])

RECURSIVE readStringBody(_)
readStringBody(l) ==
    IF l.ch # Ch.quote /\ l.ch # 0
    THEN readStringBody(readChar(l))
    ELSE l

readString(l) ==
    Let([l1 \in {readChar(l)} |->
    Let([l2 \in {readStringBody(l1)} |->
        [lit |-> Slice(l2, l1.position), l |-> readChar(l2)]])])

Punctuation ==
    [c \in {Ch.assign, Ch.colon, Ch.comma, Ch.semicolon, Ch.lparen, Ch.rparen,
            Ch.lbrace, Ch.rbrace, Ch.lbracket, Ch.rbracket, Ch.dollar, Ch.bang}
       |-> CASE c = Ch.assign -> TokenType.ASSIGN
             [] c = Ch.colon -> TokenType.COLON
             [] c = Ch.comma -> TokenType.COMMA
             [] c = Ch.semicolon -> TokenType.SEMICOLON
             [] c = Ch.lparen -> TokenType.LPAREN
             [] c = Ch.rparen -> TokenType.RPAREN
             [] c = Ch.lbrace -> TokenType.LBRACE
             [] c = Ch.rbrace -> TokenType.RBRACE
             [] c = Ch.lbracket -> TokenType.LBRACKET
             [] c = Ch.rbracket -> TokenType.RBRACKET
             [] c = Ch.dollar -> TokenType.DOLLAR
             [] c = Ch.bang -> TokenType.BANG]

(* string(l.ch): the conversion of a byte to a string gives the UTF-8      *)
(* encoding of the rune of that value, two bytes from 0x80 on             *)
string(ch) ==
    IF ch < 128 THEN <<ch>> ELSE <<192 + (ch \div 64), 128 + (ch % 64)>>

(* the token NextToken builds at the byte l.ch, with the lexer after it *)
readToken(l) ==
    IF l.ch \in DOMAIN Punctuation
    THEN [tok |-> Token(Punctuation[l.ch], <<l.ch>>), l |-> readChar(l)]
    ELSE IF l.ch = Ch.quote
    THEN Let([r \in {readString(l)} |->
             [tok |-> Token(TokenType.STRING, r.lit), l |-> r.l]])
    ELSE IF l.ch = 0
    THEN [tok |-> Token(TokenType.EOF, <<>>), l |-> readChar(l)]
    ELSE IF isLetter(l.ch)
    THEN Let([r \in {readIdentifier(l)} |->
             [tok |-> Token(TokenType.IDENT, r.lit), l |-> r.l]])
    ELSE IF isDigit(l.ch)
    THEN Let([r \in {readNumber(l)} |->
             [tok |-> Token(TokenType.INT, r.lit), l |-> r.l]])
    ELSE [tok |-> Token(TokenType.ILLEGAL, string(l.ch)), l |-> readChar(l)]

(* NextToken returns the token and the advanced lexer: [tok, l]. *)
NextToken(l) == Let([l1 \in {skipWhitespace(l)} |-> readToken(l1)])

(***************************************************************************)
(* AST (document.go).  A nil pointer, a nil interface and a nil slice      *)
(* element are the record Nil; every node carries its Go type in `node`.   *)
(***************************************************************************)
Nil == [node |-> "nil"]

EmptyMap == [k \in {} |-> Nil]

MapPut(m, k, v) == [x \in (DOMAIN m) \cup {k} |-> IF x = k THEN v ELSE m[x]]

Document(defs) == [node |-> "Document", Definitions |-> defs]

OperationDefinition(operation, name, varDefs, selectionSet) ==
    [node |-> "OperationDefinition", Operation |-> operation, Name |-> name,
     VariableDefinitions |-> varDefs, SelectionSet |-> selectionSet]

TypeDefinition(name, fields) ==
    [node |-> "TypeDefinition", Name |-> name, Fields |-> fields]

VariableDefinition(variable, type) == [Variable |-> variable, Type |-> type]

Type(name, nonNull, isList, elem) ==
    [Name |-> name, NonNull |-> nonNull, IsList |-> isList, Elem |-> elem]

SelectionSet(selections) == [node |-> "SelectionSet", Selections |-> selections]

Field(name, arguments, selectionSet) ==
    [node |-> "Field", Name |-> name, Arguments |-> arguments,
     SelectionSet |-> selectionSet]

Argument(name, value) == [Name |-> name, Value |-> value]

Value(kind, literal, objectFields, list) ==
    [node |-> "Value", Kind |-> kind, Literal |-> literal,
     ObjectFields |-> objectFields, List |-> list]

(* the keywords parseDefinition compares literals with, as bytes *)
Keyword ==
    [query |-> <<113, 117, 101, 114, 121>>,
     mutation |-> <<109, 117, 116, 97, 116, 105, 111, 110>>,
     subscription |-> <<115, 117, 98, 115, 99, 114, 105, 112, 116, 105, 111, 110>>,
     type |-> <<116, 121, 112, 101>>,
     true |-> <<116, 114, 117, 101>>,
     false |-> <<102, 97, 108, 115, 101>>]

(* the literals of parseObject's Illegal values, as bytes:                 *)
(* "expected object key" and "expected colon in object"                    *)
Diagnostic ==
    [key |-> <<101, 120, 112, 101, 99, 116, 101, 100, 32, 111, 98, 106, 101, 99, 116, 32, 107, 101, 121>>,
     colon |-> <<101, 120, 112, 101, 99, 116, 101, 100, 32, 99, 111, 108, 111, 110, 32, 105, 110, 32, 111, 98, 106, 101, 99, 116>>]

(***************************************************************************)
(* Parser (parser.go).  A Parser is [l, curToken, peekToken]; the model    *)
(* adds `hang`, set when a loop of the parser runs an iteration that calls *)
(* nextToken not once: the loop condition and body read only the parser,   *)
(* which that iteration left as it found it, so the loop never ends.  A    *)
(* parse operator returns [p, v]: the parser after it and its Go result.   *)
(***************************************************************************)
nextToken(p) ==
    Let([r \in {NextToken(p.l)} |->
        [p EXCEPT !.curToken = p.peekToken, !.peekToken = r.tok, !.l = r.l]])

NewParser(l) ==
    nextToken(nextToken([l |-> l, curToken |-> Token("", <<>>),
                         peekToken |-> Token("", <<>>), hang |-> FALSE]))

(* TRUE when the parser went from p to p2 without a call of nextToken: every *)
(* nextToken reads at least one byte position further.                       *)
NoProgress(p, p2) == p2.l.readPosition = p.l.readPosition

Hung(p) == [p EXCEPT !.hang = TRUE]

(* nextToken when `cond` holds: an if statement whose body is p.nextToken() *)
nextTokenIf(cond, p) == IF cond THEN nextToken(p) ELSE p

SkipComma(p) == nextTokenIf(p.curToken.Type = TokenType.COMMA, p)

(* parseType with a list type left nullable whatever follows its `]` *)
RECURSIVE parseTypeListNullable(_)
parseTypeListNullable(p) ==
    IF p.curToken.Type = TokenType.LBRACKET
    THEN Let([inner \in {parseTypeListNullable(nextToken(p))} |->
         Let([p2 \in {nextToken(inner.p)} |->
             [p |-> nextTokenIf(p2.curToken.Type = TokenType.BANG, p2),
              v |-> Type(<<>>, FALSE, TRUE, inner.v)]])])
    ELSE IF p.curToken.Type = TokenType.IDENT
    THEN Let([p2 \in {nextToken(p)} |->
             [p |-> nextTokenIf(p2.curToken.Type = TokenType.BANG, p2),
              v |-> Type(p.curToken.Literal, p2.curToken.Type = TokenType.BANG,
                         FALSE, Nil)]])
    ELSE [p |-> p, v |-> Nil]

RECURSIVE parseType(_)
parseType(p) ==
    IF p.curToken.Type = TokenType.LBRACKET
    THEN Let([inner \in {parseType(nextToken(p))} |->
         Let([p2 \in {nextToken(inner.p)} |->
             [p |-> nextTokenIf(p2.curToken.Type = TokenType.BANG, p2),
              v |-> Type(<<>>, p2.curToken.Type = TokenType.BANG, TRUE, inner.v)]])])
    ELSE IF p.curToken.Type = TokenType.IDENT
    THEN Let([p2 \in {nextToken(p)} |->
             [p |-> nextTokenIf(p2.curToken.Type = TokenType.BANG, p2),
              v |-> Type(p.curToken.Literal, p2.curToken.Type = TokenType.BANG,
                         FALSE, Nil)]])
    ELSE [p |-> p, v |-> Nil]

(* a scalar Value of the given kind made from the current token, which is *)
(* then consumed                                                          *)
parseScalar(p, kind) ==
    [p |-> nextToken(p), v |-> Value(kind, p.curToken.Literal, EmptyMap, <<>>)]

RECURSIVE parseValue(_), parseObjectLoop(_, _), parseArrayLoop(_, _)

(* one pass of parseObject's loop; `ret` carries an early return value *)
parseObjectLoop(p, objFields) ==
    IF p.curToken.Type \in {TokenType.RBRACE, TokenType.EOF}
    THEN [p |-> p, v |-> objFields, ret |-> Nil]
    ELSE IF p.curToken.Type # TokenType.IDENT
    THEN [p |-> p, v |-> objFields,
          ret |-> Value("Illegal", Diagnostic.key, EmptyMap, <<>>)]
    ELSE Let([p1 \in {nextToken(p)} |->
             IF p1.curToken.Type # TokenType.COLON
             THEN [p |-> p1, v |-> objFields,
                   ret |-> Value("Illegal", Diagnostic.colon, EmptyMap, <<>>)]
             ELSE Let([r \in {parseValue(nextToken(p1))} |->
                      parseObjectLoop(SkipComma(r.p),
                                      MapPut(objFields, p.curToken.Literal, r.v))])])

parseObject(p) ==
    Let([r \in {parseObjectLoop(nextToken(p), EmptyMap)} |->
        IF r.ret # Nil
        THEN [p |-> r.p, v |-> r.ret]
        ELSE [p |-> nextToken(r.p), v |-> Value("Object", <<>>, r.v, <<>>)]])

parseArrayLoop(p, arr) ==
    IF p.curToken.Type \in {TokenType.RBRACKET, TokenType.EOF}
    THEN [p |-> p, v |-> arr]
    ELSE Let([r \in {parseValue(p)} |->
         Let([p2 \in {SkipComma(r.p)} |->
             IF NoProgress(p, p2)
             THEN [p |-> Hung(p2), v |-> Append(arr, r.v)]
             ELSE parseArrayLoop(p2, Append(arr, r.v))])])

parseArray(p) ==
    Let([r \in {parseArrayLoop(nextToken(p), <<>>)} |->
        [p |-> nextToken(r.p), v |-> Value("Array", <<>>, EmptyMap, r.v)]])

(* a Variable branch that takes whatever token follows the `$` as the name *)
parseVariableAnyToken(p1) == parseScalar(p1, "Variable")

(* the Variable branch of parseValue, entered after the `$` is consumed *)
parseVariable(p1) ==
    IF p1.curToken.Type = TokenType.IDENT
    THEN parseScalar(p1, "Variable")
    ELSE [p |-> p1, v |-> Value("Variable", <<>>, EmptyMap, <<>>)]

parseValue(p) ==
    CASE p.curToken.Type = TokenType.LBRACE -> parseObject(p)
      [] p.curToken.Type = TokenType.LBRACKET -> parseArray(p)
      [] p.curToken.Type = TokenType.DOLLAR -> parseVariable(nextToken(p))
      [] OTHER ->
           parseScalar(p,
               CASE p.curToken.Type = TokenType.INT -> "Int"
                 [] p.curToken.Type = TokenType.STRING -> "String"
                 [] p.curToken.Type = TokenType.IDENT ->
                      IF p.curToken.Literal \in {Keyword.true, Keyword.false}
                      THEN "Boolean"
                      ELSE "Enum"
                 [] OTHER -> "Illegal")

(* one argument, entered at its name: the name is consumed, and the value *)
(* is parsed only after a colon                                           *)
parseArgument(p) ==
    Let([p1 \in {nextToken(p)} |->
    Let([val \in {IF p1.curToken.Type = TokenType.COLON
                  THEN parseValue(nextToken(p1))
                  ELSE [p |-> p1, v |-> Nil]} |->
        [p |-> val.p, v |-> Argument(p.curToken.Literal, val.v)]])])

RECURSIVE parseSelectionSet(_), parseSelectionLoop(_, _)

RECURSIVE parseArgumentsLoop(_, _)
parseArgumentsLoop(p, args) ==
    IF p.hang \/ p.curToken.Type \in {TokenType.RPAREN, TokenType.EOF}
    THEN [p |-> p, v |-> args]
    ELSE Let([r \in {IF p.curToken.Type = TokenType.IDENT
                     THEN parseArgument(p)
                     ELSE [p |-> p, v |-> Nil]} |->
         Let([args2 \in {IF r.v # Nil THEN Append(args, r.v) ELSE args} |->
         Let([p2 \in {SkipComma(r.p)} |->
             IF NoProgress(p, p2)
             THEN [p |-> Hung(p2), v |-> args2]
             ELSE parseArgumentsLoop(p2, args2)])])])

parseArguments(p) ==
    Let([r \in {parseArgumentsLoop(nextToken(p), <<>>)} |->
        [p |-> nextToken(r.p), v |-> r.v]])

parseField(p) ==
    IF p.curToken.Type # TokenType.IDENT
    THEN [p |-> p, v |-> Nil]
    ELSE Let([p1 \in {nextToken(p)} |->
         Let([args \in {IF p1.curToken.Type = TokenType.LPAREN
                        THEN parseArguments(p1)
                        ELSE [p |-> p1, v |-> <<>>]} |->
         Let([ss \in {IF args.p.curToken.Type = TokenType.LBRACE
                      THEN parseSelectionSet(args.p)
                      ELSE [p |-> args.p, v |-> Nil]} |->
             [p |-> ss.p, v |-> Field(p.curToken.Literal, args.v, ss.v)]])])])

parseSelection(p) == parseField(p)

parseSelectionLoop(p, sels) ==
    IF p.hang \/ p.curToken.Type \in {TokenType.RBRACE, TokenType.EOF}
    THEN [p |-> p, v |-> sels]
    ELSE Let([sel \in {parseSelection(p)} |->
         Let([sels2 \in {IF sel.v # Nil THEN Append(sels, sel.v) ELSE sels} |->
         Let([p2 \in {SkipComma(sel.p)} |->
             IF NoProgress(p, p2)
             THEN [p |-> Hung(p2), v |-> sels2]
             ELSE parseSelectionLoop(p2, sels2)])])])

parseSelectionSet(p) ==
    Let([r \in {parseSelectionLoop(nextToken(p), <<>>)} |->
        [p |-> nextToken(r.p), v |-> SelectionSet(r.v)]])

(* one variable definition, entered after the `$` is consumed with an      *)
(* identifier as the current token                                         *)
parseVariableDefinition(p1) ==
    Let([p2 \in {nextToken(p1)} |->
    Let([ty \in {IF p2.curToken.Type = TokenType.COLON
                 THEN parseType(nextToken(p2))
                 ELSE [p |-> p2, v |-> Nil]} |->
        [p |-> ty.p,
         v |-> VariableDefinition(p1.curToken.Literal,
                                  IF ty.v # Nil
                                  THEN ty.v
                                  ELSE Type(<<>>, FALSE, FALSE, Nil))]])])

(* one pass of parseVariableDefinitions' loop; `ret` is TRUE on the early *)
(* return taken when `$` is not followed by an identifier                 *)
RECURSIVE parseVariableDefinitionsLoop(_, _)
parseVariableDefinitionsLoop(p, vars) ==
    IF p.hang \/ p.curToken.Type \in {TokenType.RPAREN, TokenType.EOF}
    THEN [p |-> p, v |-> vars, ret |-> FALSE]
    ELSE IF p.curToken.Type # TokenType.DOLLAR
    THEN Let([p3 \in {SkipComma(p)} |->
             IF NoProgress(p, p3)
             THEN [p |-> Hung(p3), v |-> vars, ret |-> FALSE]
             ELSE parseVariableDefinitionsLoop(p3, vars)])
    ELSE Let([p1 \in {nextToken(p)} |->
             IF p1.curToken.Type # TokenType.IDENT
             THEN [p |-> p1, v |-> vars, ret |-> TRUE]
             ELSE Let([r \in {parseVariableDefinition(p1)} |->
                      parseVariableDefinitionsLoop(SkipComma(r.p),
                                                   Append(vars, r.v))])])

parseVariableDefinitions(p) ==
    Let([r \in {parseVariableDefinitionsLoop(nextToken(p), <<>>)} |->
        [p |-> IF r.ret THEN r.p ELSE nextToken(r.p), v |-> r.v]])

IsOperationKeyword(tok) ==
    tok.Literal \in {Keyword.query, Keyword.mutation, Keyword.subscription}

(* the variable definitions and selection set of an operation, entered    *)
(* after the keyword and the name; kw tells that a keyword was there      *)
parseOperationBody(p2, kw, operation, name) ==
    Let([vars \in {IF kw /\ p2.curToken.Type = TokenType.LPAREN
                   THEN parseVariableDefinitions(p2)
                   ELSE [p |-> p2, v |-> <<>>]} |->
    Let([ss \in {IF vars.p.curToken.Type = TokenType.LBRACE
                 THEN parseSelectionSet(vars.p)
                 ELSE [p |-> vars.p, v |-> Nil]} |->
        [p |-> ss.p, v |-> OperationDefinition(operation, name, vars.v, ss.v)]])])

(* parseOperationDefinition without `op.Operation = p.curToken.Literal`: *)
(* every operation is recorded as a query                               *)
parseOperationDefinitionAsQuery(p) ==
    IF ~IsOperationKeyword(p.curToken)
    THEN parseOperationBody(p, FALSE, Keyword.query, <<>>)
    ELSE Let([p1 \in {nextToken(p)} |->
             IF p1.curToken.Type = TokenType.IDENT
             THEN parseOperationBody(nextToken(p1), TRUE, Keyword.query,
                                     p1.curToken.Literal)
             ELSE parseOperationBody(p1, TRUE, Keyword.query, <<>>)])

parseOperationDefinition(p) ==
    IF ~IsOperationKeyword(p.curToken)
    THEN parseOperationBody(p, FALSE, Keyword.query, <<>>)
    ELSE Let([p1 \in {nextToken(p)} |->
             IF p1.curToken.Type = TokenType.IDENT
             THEN parseOperationBody(nextToken(p1), TRUE, p.curToken.Literal,
                                     p1.curToken.Literal)
             ELSE parseOperationBody(p1, TRUE, p.curToken.Literal, <<>>)])

parseTypeField(p) ==
    IF p.curToken.Type # TokenType.IDENT
    THEN [p |-> p, v |-> Nil]
    ELSE Let([p1 \in {nextToken(p)} |->
             [p |-> IF p1.curToken.Type = TokenType.COLON
                    THEN Let([p2 \in {nextToken(p1)} |->
                             nextTokenIf(p2.curToken.Type = TokenType.IDENT, p2)])
                    ELSE p1,
              v |-> Field(p.curToken.Literal, <<>>, Nil)]])

maxIterations == 10000

RECURSIVE skipTypeDefinitionLoop(_, _, _)
skipTypeDefinitionLoop(p, fields, iterations) ==
    IF p.curToken.Type \in {TokenType.RBRACE, TokenType.EOF}
       \/ iterations + 1 > maxIterations
    THEN [p |-> p, v |-> fields]
    ELSE Let([field \in {parseTypeField(p)} |->
             IF field.v # Nil
             THEN skipTypeDefinitionLoop(SkipComma(field.p),
                                         Append(fields, field.v), iterations + 1)
             ELSE skipTypeDefinitionLoop(SkipComma(nextToken(field.p)),
                                         fields, iterations + 1)])

skipTypeDefinition(p) ==
    Let([p1 \in {nextToken(p)} |->
        IF p1.curToken.Type # TokenType.IDENT
        THEN [p |-> p1, v |-> Nil]
        ELSE Let([p2 \in {nextToken(p1)} |->
                 IF p2.curToken.Type # TokenType.LBRACE
                 THEN [p |-> p2, v |-> Nil]
                 ELSE Let([r \in {skipTypeDefinitionLoop(nextToken(p2), <<>>, 0)} |->
                          [p |-> nextTokenIf(r.p.curToken.Type = TokenType.RBRACE,
                                             r.p),
                           v |-> TypeDefinition(p1.curToken.Literal, r.v)]])])])

parseDefinition(p) ==
    IF IsOperationKeyword(p.curToken) \/ p.curToken.Type = TokenType.LBRACE
    THEN parseOperationDefinition(p)
    ELSE IF p.curToken.Literal = Keyword.type
    THEN skipTypeDefinition(p)
    ELSE [p |-> nextToken(p), v |-> Nil]

(* one pass of ParseDocument's loop, entered with curToken not EOF *)
ParseDocumentBody(p, defs) ==
    Let([def \in {parseDefinition(p)} |->
        [p |-> nextTokenIf(def.p.curToken.Type # TokenType.EOF, def.p),
         v |-> IF def.v # Nil THEN Append(defs, def.v) ELSE defs]])

RECURSIVE ParseDocumentLoop(_, _)
ParseDocumentLoop(p, defs) ==
    IF p.hang \/ p.curToken.Type = TokenType.EOF
    THEN [p |-> p, v |-> defs]
    ELSE Let([r \in {ParseDocumentBody(p, defs)} |->
             ParseDocumentLoop(r.p, r.v)])

(* ParseDocument returns [p, v, hang]: v is the Document; hang tells that *)
(* the call never returns, and then v is meaningless.                     *)
ParseDocument(p) ==
    Let([r \in {ParseDocumentLoop(p, <<>>)} |->
        [p |-> r.p, v |-> Document(r.v), hang |-> r.p.hang]])

(***************************************************************************)
(* Go values.  An interface{} value is a record tagged by its reflect      *)
(* kind; NilValue is the nil interface.  A map is a function on its keys,  *)
(* a slice a sequence, a struct the sequence of its fields in declaration  *)
(* order, each with its name, its json tag (if any) and its value.         *)
(***************************************************************************)
NilValue == [kind |-> "nil"]

GoString(s) == [kind |-> "string", s |-> s]

GoInt(i) == [kind |-> "int", i |-> i]

GoBool(b) == [kind |-> "bool", b |-> b]

GoMap(m) == [kind |-> "map", m |-> m]

GoSlice(elems) == [kind |-> "slice", elems |-> elems]

GoStruct(fields) == [kind |-> "struct", fields |-> fields]

GoPtr(elem) == [kind |-> "ptr", elem |-> elem]

(* a channel value: its direction ("both" for chan T, "recv" for <-chan T), *)
(* its element type and the channel object it refers to                    *)
GoChan(dir, elem, id) == [kind |-> "chan", dir |-> dir, elem |-> elem, id |-> id]

StructField(name, hasTag, tag, val) ==
    [Name |-> name, hasTag |-> hasTag, Tag |-> tag, Val |-> val]

(* the strings of the tests' resolvers and query texts, as bytes *)
Str ==
    [hello |-> <<104, 101, 108, 108, 111>>,
     world |-> <<119, 111, 114, 108, 100>>,
     names |-> <<110, 97, 109, 101, 115>>,
     Name |-> <<78, 97, 109, 101>>,
     Alice |-> <<65, 108, 105, 99, 101>>,
     Bob |-> <<66, 111, 98>>,
     fail |-> <<102, 97, 105, 108>>,
     dummy |-> <<100, 117, 109, 109, 121>>,
     dummySuccess |-> <<100, 117, 109, 109, 121, 32, 115, 117, 99, 99, 101, 115, 115>>,
     notAChannel |-> <<110, 111, 116, 32, 97, 32, 99, 104, 97, 110, 110, 101, 108>>,
     FieldA |-> <<70, 105, 101, 108, 100, 65>>,
     fieldA |-> <<102, 105, 101, 108, 100, 65>>,
     FieldB |-> <<70, 105, 101, 108, 100, 66>>,
     FIELDB |-> <<70, 73, 69, 76, 68, 66>>,
     valueA |-> <<118, 97, 108, 117, 101, 65>>,
     nonexistent |-> <<110, 111, 110, 101, 120, 105, 115, 116, 101, 110, 116>>,
     token |-> <<116, 111, 107, 101, 110>>,
     Test |-> <<84, 101, 115, 116>>,
     JsonField |-> <<74, 115, 111, 110, 70, 105, 101, 108, 100>>,
     json_field |-> <<106, 115, 111, 110, 95, 102, 105, 101, 108, 100>>,
     jsonValue |-> <<106, 115, 111, 110, 32, 118, 97, 108, 117, 101>>,
     ID |-> <<73, 68>>,
     id |-> <<105, 100>>,
     name |-> <<110, 97, 109, 101>>,
     Age |-> <<65, 103, 101>>,
     age |-> <<97, 103, 101>>,
     Friends |-> <<70, 114, 105, 101, 110, 100, 115>>,
     friendsOmitempty |-> <<102, 114, 105, 101, 110, 100, 115, 44, 111, 109, 105, 116, 101, 109, 112, 116, 121>>,
     friends |-> <<102, 114, 105, 101, 110, 100, 115>>,
     u1 |-> <<117, 49>>,
     var1 |-> <<118, 97, 114, 49>>,
     RED |-> <<82, 69, 68>>,
     at |-> <<64>>,
     Foo |-> <<70, 111, 111>>,
     TRUE |-> <<84, 82, 85, 69>>]

NoError == "nil"

(***************************************************************************)
(* Resolvers.  A ResolverFunc is named by the test that defines it, and    *)
(* Invoke applies it: [val, err].                                          *)
(***************************************************************************)
(* the resolvers registered for queries and mutations: hello returns      *)
(* "world", dummyResolver fails when its argument fail is true, names      *)
(* returns the records Alice and Bob, and friends returns a                *)
(* []interface{} whose first element is nil and whose second is Alice      *)
Resolvers == {"hello", "dummyResolver", "names", "friends"}

(* the resolvers registered for subscriptions: badSub returns a string,   *)
(* goodSub a chan interface{} of capacity 1, userSubscriptionResolver an  *)
(* unbuffered chan interface{}, and recvSub a <-chan interface{}          *)
StreamResolvers ==
    {"badSub", "goodSub", "userSubscriptionResolver", "recvSub", "dummyResolver"}

(* the capacity of the channel a resolver makes *)
ChannelCap(resolver) == IF resolver = "goodSub" THEN 1 ELSE 0

Invoke(resolver, source, args) ==
    CASE resolver = "hello" ->
            [val |-> GoString(Str.world), err |-> NoError]
      [] resolver = "dummyResolver" ->
            IF Str.fail \in DOMAIN args /\ args[Str.fail] = GoBool(TRUE)
            THEN [val |-> NilValue, err |-> "dummy failure"]
            ELSE [val |-> GoString(Str.dummySuccess), err |-> NoError]
      [] resolver = "names" ->
            [val |-> GoSlice(<<
                 GoStruct(<<StructField(Str.Name, FALSE, <<>>, GoString(Str.Alice))>>),
                 GoStruct(<<StructField(Str.Name, FALSE, <<>>, GoString(Str.Bob))>>)>>),
             err |-> NoError]
      [] resolver = "friends" ->
            [val |-> GoSlice(<<
                 NilValue,
                 GoStruct(<<StructField(Str.Name, FALSE, <<>>, GoString(Str.Alice))>>)>>),
             err |-> NoError]
      [] resolver = "badSub" ->
            [val |-> GoString(Str.notAChannel), err |-> NoError]
      [] resolver \in {"goodSub", "userSubscriptionResolver"} ->
            [val |-> GoChan("both", "interface{}", resolver), err |-> NoError]
      [] resolver = "recvSub" ->
            [val |-> GoChan("recv", "interface{}", resolver), err |-> NoError]

(***************************************************************************)
(* State.  The three registries are the package's global maps.  A request  *)
(* is its query text `input` and its variable environment `variables`; pc  *)
(* is the position of the handler or of the parse; `parser` is the Parser, *)
(* `doc` the Document built so far; `response` and `err` are what          *)
(* executeDocument returned, and `trace` lists the resolver invocations    *)
(* and reflective lookups of the execution in the order they happened.     *)
(* History: `registrations` counts the Register calls and `lastRegistered` *)
(* holds, per registry and field name, the resolver of the latest call.    *)
(* `accesses` holds the registry access each goroutine is in the middle    *)
(* of, and `fatal` tells that the runtime has aborted the process.         *)
(* `call` is a direct call of one function of the package with its         *)
(* arguments, as the unit tests make them, and `returned` what it returned.*)
(* `lexer` is a Lexer that is asked for its tokens one at a time, and      *)
(* `tokens` the tokens it has returned, each with the lexer's position     *)
(* when it was returned.  `channel` is the event channel a subscription    *)
(* resolver made, `subCh` what executeSubscription returned, `pushed` the  *)
(* events the producer has sent and `delivered` those the handler's loop   *)
(* has written to the connection.  `executions` holds, per goroutine, the  *)
(* executeDocument call it is running on the shared Document.              *)
(***************************************************************************)
VARIABLES QueryResolvers, MutationResolvers, SubscriptionResolvers,
          registrations, lastRegistered, input, variables, pc, parser, doc,
          response, err, trace, accesses, fatal,
          call, returned, lexer, tokens, channel, subCh, pushed, delivered,
          executions

vars ==
    <<QueryResolvers, MutationResolvers, SubscriptionResolvers,
      registrations, lastRegistered, input, variables, pc, parser, doc,
      response, err, trace, accesses, fatal,
      call, returned, lexer, tokens, channel, subCh, pushed, delivered,
      executions>>

(* the variables of a direct call, of a lexer in use, of a subscription *)
(* and of the executions that share a Document                          *)
callVars == <<call, returned>>

lexVars == <<lexer, tokens>>

streamVars == <<channel, subCh, pushed, delivered>>

(* none of them is in use *)
NoneInUse ==
    /\ call = Nil
    /\ returned = Nil
    /\ lexer = Nil
    /\ tokens = <<>>
    /\ channel = Nil
    /\ subCh = NilValue
    /\ pushed = <<>>
    /\ delivered = <<>>

(***************************************************************************)
(* Executor.  An executor operator returns [val, err, panic, trace]: its   *)
(* Go results, whether it panicked instead of returning, and the trace     *)
(* extended by what it invoked.                                            *)
(***************************************************************************)
Return(val, tr) == [val |-> val, err |-> NoError, panic |-> FALSE, trace |-> tr]

Fault(e, tr) == [val |-> NilValue, err |-> e, panic |-> FALSE, trace |-> tr]

Panic(tr) == [val |-> NilValue, err |-> NoError, panic |-> TRUE, trace |-> tr]

Event(op, registry, name, resolver, source, args) ==
    [op |-> op, registry |-> registry, name |-> name, resolver |-> resolver,
     source |-> source, args |-> args]

(* strconv.Atoi on a literal: [ok, i].  Go's int is 64 bits wide.  Beside *)
(* a syntax error i is 0; beside a range error it is the int of largest   *)
(* magnitude with the literal's sign.                                     *)
MaxInt64Digits ==
    <<9, 2, 2, 3, 3, 7, 2, 0, 3, 6, 8, 5, 4, 7, 7, 5, 8, 0, 7>>

RECURSIVE StripZeros(_)
StripZeros(ds) == IF ds # <<>> /\ ds[1] = 0 THEN StripZeros(Tail(ds)) ELSE ds

RECURSIVE DigitsLess(_, _)
(* ds < es for two digit sequences of the same length *)
DigitsLess(ds, es) ==
    /\ ds # <<>>
    /\ \/ ds[1] < es[1]
       \/ ds[1] = es[1] /\ DigitsLess(Tail(ds), Tail(es))

RECURSIVE DigitsValue(_, _)
DigitsValue(ds, acc) ==
    IF ds = <<>> THEN acc ELSE DigitsValue(Tail(ds), 10 * acc + ds[1])

Atoi(lit) ==
    Let([signed \in {lit # <<>> /\ lit[1] \in {43, 45}} |->
    Let([body \in {IF signed THEN Tail(lit) ELSE lit} |->
    Let([ds \in {StripZeros([i \in 1..Len(body) |-> body[i] - 48])} |->
        IF /\ body # <<>>
           /\ \A i \in 1..Len(body) : isDigit(body[i])
           (* the magnitude fits: at most 2^63 - 1, or 2^63 after a minus sign *)
           /\ \/ Len(ds) < Len(MaxInt64Digits)
              \/ /\ Len(ds) = Len(MaxInt64Digits)
                 /\ \/ DigitsLess(ds, MaxInt64Digits)
                    \/ ds = MaxInt64Digits
                    \/ /\ signed /\ lit[1] = 45
                       /\ ds = [MaxInt64Digits EXCEPT ![19] = 8]
        THEN [ok |-> TRUE,
              i |-> IF signed /\ lit[1] = 45
                    THEN 0 - DigitsValue(ds, 0)
                    ELSE DigitsValue(ds, 0)]
        ELSE IF body # <<>> /\ \A i \in 1..Len(body) : isDigit(body[i])
        (* a range error: Atoi returns the nearest int, 1<<63 - 1 or -1<<63, *)
        (* written here as the extreme integers of TLC, which are 32 bits    *)
        (* wide; no literal that parses denotes them in the inputs below     *)
        THEN [ok |-> FALSE,
              i |-> IF signed /\ lit[1] = 45 THEN 0 - 2147483647 - 1 ELSE 2147483647]
        ELSE [ok |-> FALSE, i |-> 0]])])])

(* buildValue with `return i` for the Int kind whatever err is *)
RECURSIVE buildValueIgnoringErr(_, _)
buildValueIgnoringErr(val, variables_) ==
    CASE val.Kind = "Variable" ->
            IF val.Literal \in DOMAIN variables_
            THEN variables_[val.Literal]
            ELSE NilValue
      [] val.Kind = "Int" -> GoInt(Atoi(val.Literal).i)
      [] val.Kind = "String" -> GoString(val.Literal)
      [] val.Kind = "Boolean" -> GoBool(val.Literal = Keyword.true)
      [] val.Kind = "Object" ->
            GoMap([key \in DOMAIN val.ObjectFields
                     |-> buildValueIgnoringErr(val.ObjectFields[key], variables_)])
      [] val.Kind = "Array" ->
            GoSlice([i \in 1..Len(val.List)
                       |-> buildValueIgnoringErr(val.List[i], variables_)])
      [] OTHER -> GoString(val.Literal)

(* buildValue that builds the elements of an Array and the fields of an *)
(* Object with no variables                                             *)
RECURSIVE buildValueScalarVariables(_, _)
buildValueScalarVariables(val, variables_) ==
    CASE val.Kind = "Variable" ->
            IF val.Literal \in DOMAIN variables_
            THEN variables_[val.Literal]
            ELSE NilValue
      [] val.Kind = "Int" ->
            Let([a \in {Atoi(val.Literal)} |->
                IF a.ok THEN GoInt(a.i) ELSE GoInt(0)])
      [] val.Kind = "String" -> GoString(val.Literal)
      [] val.Kind = "Boolean" -> GoBool(val.Literal = Keyword.true)
      [] val.Kind = "Object" ->
            GoMap([key \in DOMAIN val.ObjectFields
                     |-> buildValueScalarVariables(val.ObjectFields[key], EmptyMap)])
      [] val.Kind = "Array" ->
            GoSlice([i \in 1..Len(val.List)
                       |-> buildValueScalarVariables(val.List[i], EmptyMap)])
      [] OTHER -> GoString(val.Literal)

RECURSIVE buildValue(_, _)
buildValue(val, variables_) ==
    CASE val.Kind = "Variable" ->
            IF val.Literal \in DOMAIN variables_
            THEN variables_[val.Literal]
            ELSE NilValue
      [] val.Kind = "Int" ->
            Let([a \in {Atoi(val.Literal)} |->
                IF a.ok THEN GoInt(a.i) ELSE GoInt(0)])
      [] val.Kind = "String" -> GoString(val.Literal)
      [] val.Kind = "Boolean" -> GoBool(val.Literal = Keyword.true)
      [] val.Kind = "Object" ->
            GoMap([key \in DOMAIN val.ObjectFields
                     |-> buildValue(val.ObjectFields[key], variables_)])
      [] val.Kind = "Array" ->
            GoSlice([i \in 1..Len(val.List)
                       |-> buildValue(val.List[i], variables_)])
      [] OTHER -> GoString(val.Literal)

(* resolveArgument with the rules of buildValue in every case *)
resolveArgumentSilent(arg, variables_) ==
    IF arg.Value = Nil
    THEN Panic(<<>>)
    ELSE Return(buildValue(arg.Value, variables_), <<>>)

(* resolveArgument returns [val, err, panic, trace]; for the Int kind it   *)
(* returns what strconv.Atoi returns, the int and the error.  Reading      *)
(* arg.Value.Kind of an Argument whose Value is nil is a nil dereference.  *)
resolveArgument(arg, variables_) ==
    IF arg.Value = Nil
    THEN Panic(<<>>)
    ELSE CASE arg.Value.Kind = "Int" ->
                 Let([a \in {Atoi(arg.Value.Literal)} |->
                     [val |-> GoInt(a.i),
                      err |-> IF a.ok THEN NoError ELSE "strconv.Atoi: parsing",
                      panic |-> FALSE, trace |-> <<>>]])
           [] arg.Value.Kind = "String" -> Return(GoString(arg.Value.Literal), <<>>)
           [] arg.Value.Kind = "Boolean" ->
                 Return(GoBool(arg.Value.Literal = Keyword.true), <<>>)
           [] arg.Value.Kind = "Variable" ->
                 IF arg.Value.Literal \in DOMAIN variables_
                 THEN Return(variables_[arg.Value.Literal], <<>>)
                 ELSE Fault("variable not provided", <<>>)
           [] OTHER -> Return(GoString(arg.Value.Literal), <<>>)

(* buildArgs returns [val, panic]: reading val.Kind of an Argument whose  *)
(* Value is the nil pointer is a nil dereference.                         *)
RECURSIVE buildArgsLoop(_, _, _, _)
buildArgsLoop(arguments, i, variables_, args) ==
    IF i > Len(arguments)
    THEN [val |-> args, panic |-> FALSE]
    ELSE IF arguments[i].Value = Nil
    THEN [val |-> args, panic |-> TRUE]
    ELSE buildArgsLoop(arguments, i + 1, variables_,
                       MapPut(args, arguments[i].Name,
                              buildValue(arguments[i].Value, variables_)))

buildArgs(field, variables_) ==
    buildArgsLoop(field.Arguments, 1, variables_, EmptyMap)

ToLower(c) == IF c \in 65..90 THEN c + 32 ELSE c

(* strings.EqualFold on identifiers of ASCII letters, digits and `_` *)
EqualFold(s, t) ==
    /\ Len(s) = Len(t)
    /\ \A i \in 1..Len(s) : ToLower(s[i]) = ToLower(t[i])

(* strings.Split(tag, ",")[0] *)
RECURSIVE TagName(_)
TagName(tag) ==
    IF tag = <<>> \/ tag[1] = Ch.comma
    THEN <<>>
    ELSE <<tag[1]>> \o TagName(Tail(tag))

(* reflect's Value.Interface panics on a field that is not exported, *)
(* that is, whose name does not start with an upper-case letter      *)
IsExported(name) == name # <<>> /\ name[1] \in 65..90

RECURSIVE reflectFields(_, _, _, _)
reflectFields(fields, i, field, tr) ==
    IF i > Len(fields)
    THEN Fault("no resolver found via reflection", tr)
    ELSE IF \/ EqualFold(fields[i].Name, field.Name)
            \/ fields[i].hasTag /\ EqualFold(TagName(fields[i].Tag), field.Name)
    THEN IF IsExported(fields[i].Name)
         THEN Return(fields[i].Val, tr)
         ELSE Panic(tr)
    ELSE reflectFields(fields, i + 1, field, tr)

reflectResolve(source, field, tr) ==
    Let([tr2 \in {Append(tr, Event("reflect", "", field.Name, "", source,
                                   EmptyMap))} |->
        IF source.kind = "ptr" /\ source.elem = NilValue
        THEN Fault("source is nil", tr2)
        ELSE Let([val \in {IF source.kind = "ptr" THEN source.elem ELSE source} |->
                 IF val.kind # "struct"
                 THEN Fault("source is not a struct", tr2)
                 ELSE reflectFields(val.fields, 1, field, tr2)])])

(* resolver(source, args) for the resolver found in the registry *)
callResolver(registry, resolver, source, field, variables_, tr) ==
    Let([args \in {buildArgs(field, variables_)} |->
        IF args.panic
        THEN Panic(tr)
        ELSE Let([r \in {Invoke(resolver, source, args.val)} |->
                 [val |-> r.val, err |-> r.err, panic |-> FALSE,
                  trace |-> Append(tr, Event("resolver", registry, field.Name,
                                             resolver, source, args.val))]])])

(* resolveField with the Mutation registry consulted before the Query one *)
resolveFieldMutationFirst(source, field, variables_, tr) ==
    IF source = NilValue /\ field.Name \in DOMAIN MutationResolvers
    THEN callResolver("mutation", MutationResolvers[field.Name],
                      source, field, variables_, tr)
    ELSE IF source = NilValue /\ field.Name \in DOMAIN QueryResolvers
    THEN callResolver("query", QueryResolvers[field.Name],
                      source, field, variables_, tr)
    ELSE IF source # NilValue
    THEN reflectResolve(source, field, tr)
    ELSE Fault("no resolver found for field", tr)

resolveField(source, field, variables_, tr) ==
    IF source = NilValue /\ field.Name \in DOMAIN QueryResolvers
    THEN callResolver("query", QueryResolvers[field.Name],
                      source, field, variables_, tr)
    ELSE IF source = NilValue /\ field.Name \in DOMAIN MutationResolvers
    THEN callResolver("mutation", MutationResolvers[field.Name],
                      source, field, variables_, tr)
    ELSE IF source # NilValue
    THEN reflectResolve(source, field, tr)
    ELSE Fault("no resolver found for field", tr)

RECURSIVE executeSelectionSet(_, _, _, _), resolveNestedSelection(_, _, _, _)

(* executeSelection without the `if err != nil { return nil, err }` after *)
(* resolveField: the loop carries on with the next field                 *)
executeSelectionContinue(field, res, variables_) ==
    IF res.panic
    THEN [done |-> TRUE, r |-> Panic(res.trace)]
    ELSE IF res.err # NoError \/ field.SelectionSet = Nil
    THEN [done |-> FALSE, r |-> Return(res.val, res.trace)]
    ELSE Let([nested \in {resolveNestedSelection(res.val, field.SelectionSet,
                                                 variables_, res.trace)} |->
             IF nested.panic
             THEN [done |-> TRUE, r |-> Panic(nested.trace)]
             ELSE IF nested.err # NoError
             THEN [done |-> TRUE, r |-> Fault(nested.err, nested.trace)]
             ELSE [done |-> FALSE, r |-> nested]])

(* one pass of executeSelectionSet's loop after resolveField returned res: *)
(* [done, r], where done tells that the loop is left with the result r,    *)
(* and otherwise r.val is the entry for the field                          *)
executeSelection(field, res, variables_) ==
    IF res.panic
    THEN [done |-> TRUE, r |-> Panic(res.trace)]
    ELSE IF res.err # NoError
    THEN [done |-> TRUE, r |-> Fault(res.err, res.trace)]
    ELSE IF field.SelectionSet = Nil
    THEN [done |-> FALSE, r |-> res]
    ELSE Let([nested \in {resolveNestedSelection(res.val, field.SelectionSet,
                                                 variables_, res.trace)} |->
             IF nested.panic
             THEN [done |-> TRUE, r |-> Panic(nested.trace)]
             ELSE IF nested.err # NoError
             THEN [done |-> TRUE, r |-> Fault(nested.err, nested.trace)]
             ELSE [done |-> FALSE, r |-> nested]])

RECURSIVE executeSelectionLoop(_, _, _, _, _, _)
executeSelectionLoop(source, selections, i, variables_, result, tr) ==
    IF i > Len(selections)
    THEN Return(GoMap(result), tr)
    ELSE Let([step \in {executeSelection(
                            selections[i],
                            resolveField(source, selections[i], variables_, tr),
                            variables_)} |->
             IF step.done
             THEN step.r
             ELSE executeSelectionLoop(source, selections, i + 1, variables_,
                                       MapPut(result, selections[i].Name,
                                              step.r.val),
                                       step.r.trace)])

(* executeSelectionSet ranging over ss.Selections from the last to the *)
(* first                                                               *)
executeSelectionSetBackwards(source, ss, variables_, tr) ==
    IF ss = Nil
    THEN Panic(tr)
    ELSE executeSelectionLoop(source,
                              [i \in 1..Len(ss.Selections) |->
                                  ss.Selections[Len(ss.Selections) + 1 - i]],
                              1, variables_, EmptyMap, tr)

(* ss.Selections of the nil pointer is a nil dereference *)
executeSelectionSet(source, ss, variables_, tr) ==
    IF ss = Nil
    THEN Panic(tr)
    ELSE executeSelectionLoop(source, ss.Selections, 1, variables_, EmptyMap, tr)

(* resolveSliceLoop putting each result in front of the earlier ones *)
RECURSIVE resolveSliceLoopPrepend(_, _, _, _, _, _)
resolveSliceLoopPrepend(elems, i, ss, variables_, arr, tr) ==
    IF i > Len(elems)
    THEN Return(GoSlice(arr), tr)
    ELSE Let([sub \in {executeSelectionSet(elems[i], ss, variables_, tr)} |->
             IF sub.panic \/ sub.err # NoError
             THEN sub
             ELSE resolveSliceLoopPrepend(elems, i + 1, ss, variables_,
                                          <<sub.val>> \o arr, sub.trace)])

RECURSIVE resolveSliceLoop(_, _, _, _, _, _)
resolveSliceLoop(elems, i, ss, variables_, arr, tr) ==
    IF i > Len(elems)
    THEN Return(GoSlice(arr), tr)
    ELSE Let([sub \in {executeSelectionSet(elems[i], ss, variables_, tr)} |->
             IF sub.panic \/ sub.err # NoError
             THEN sub
             ELSE resolveSliceLoop(elems, i + 1, ss, variables_,
                                   Append(arr, sub.val), sub.trace)])

resolveNestedSelection(res, ss, variables_, tr) ==
    CASE res.kind = "ptr" /\ res.elem # NilValue /\ res.elem.kind = "struct" ->
            executeSelectionSet(res, ss, variables_, tr)
      [] res.kind = "struct" -> executeSelectionSet(res, ss, variables_, tr)
      [] res.kind = "slice" -> resolveSliceLoop(res.elems, 1, ss, variables_, <<>>, tr)
      [] OTHER -> Return(res, tr)

(* executeDocument returns [response, err, panic, trace]; the response is *)
(* a map that holds the key "data" or is empty.                           *)
NoData == [k \in {} |-> NilValue]

(* executeDocument taking the last Definition for the first *)
executeDocumentLast(doc_, variables_) ==
    IF Len(doc_.Definitions) = 0
    THEN [response |-> NoData, err |-> "no definitions found",
          panic |-> FALSE, trace |-> <<>>]
    ELSE IF doc_.Definitions[Len(doc_.Definitions)].node # "OperationDefinition"
    THEN [response |-> NoData, err |-> "unsupported definition type",
          panic |-> FALSE, trace |-> <<>>]
    ELSE Let([r \in {executeSelectionSet(
                         NilValue,
                         doc_.Definitions[Len(doc_.Definitions)].SelectionSet,
                         variables_, <<>>)} |->
             [response |-> IF r.panic \/ r.err # NoError
                           THEN NoData
                           ELSE [k \in {"data"} |-> r.val],
              err |-> r.err, panic |-> r.panic, trace |-> r.trace]])

(* executeDocument refusing an operation whose keyword is subscription *)
executeDocumentByKeyword(doc_, variables_) ==
    IF Len(doc_.Definitions) = 0
    THEN [response |-> NoData, err |-> "no definitions found",
          panic |-> FALSE, trace |-> <<>>]
    ELSE IF doc_.Definitions[1].node # "OperationDefinition"
    THEN [response |-> NoData, err |-> "unsupported definition type",
          panic |-> FALSE, trace |-> <<>>]
    ELSE IF doc_.Definitions[1].Operation = Keyword.subscription
    THEN [response |-> NoData, err |-> "unsupported operation",
          panic |-> FALSE, trace |-> <<>>]
    ELSE Let([r \in {executeSelectionSet(NilValue,
                                         doc_.Definitions[1].SelectionSet,
                                         variables_, <<>>)} |->
             [response |-> IF r.panic \/ r.err # NoError
                           THEN NoData
                           ELSE [k \in {"data"} |-> r.val],
              err |-> r.err, panic |-> r.panic, trace |-> r.trace]])

executeDocument(doc_, variables_) ==
    IF Len(doc_.Definitions) = 0
    THEN [response |-> NoData, err |-> "no definitions found",
          panic |-> FALSE, trace |-> <<>>]
    ELSE IF doc_.Definitions[1].node # "OperationDefinition"
    THEN [response |-> NoData, err |-> "unsupported definition type",
          panic |-> FALSE, trace |-> <<>>]
    ELSE Let([r \in {executeSelectionSet(NilValue,
                                         doc_.Definitions[1].SelectionSet,
                                         variables_, <<>>)} |->
             [response |-> IF r.panic \/ r.err # NoError
                           THEN NoData
                           ELSE [k \in {"data"} |-> r.val],
              err |-> r.err, panic |-> r.panic, trace |-> r.trace]])

(* executeSubscription returning the resolver of the Query or Mutation *)
(* registry when the Subscription registry has none                     *)
executeSubscriptionAnyRegistry(source, field, variables_, tr) ==
    Let([resolver \in {IF field.Name \in DOMAIN SubscriptionResolvers
                       THEN SubscriptionResolvers[field.Name]
                       ELSE IF field.Name \in DOMAIN QueryResolvers
                       THEN QueryResolvers[field.Name]
                       ELSE IF field.Name \in DOMAIN MutationResolvers
                       THEN MutationResolvers[field.Name]
                       ELSE "none"} |->
        IF resolver = "none"
        THEN Fault("no subscription resolver found for field", tr)
        ELSE Let([res \in {callResolver("subscription", resolver, source, field,
                                        variables_, tr)} |->
                 IF res.panic
                 THEN res
                 ELSE IF res.err # NoError
                 THEN Fault(res.err, res.trace)
                 ELSE IF res.val.kind = "chan" /\ res.val.elem = "interface{}"
                 THEN Return([res.val EXCEPT !.dir = "recv"], res.trace)
                 ELSE Fault("subscription resolver did not return a channel",
                            res.trace)])])

(* the two type assertions succeed on the dynamic types <-chan interface{} *)
(* and chan interface{}; the conversion to <-chan interface{} keeps the    *)
(* channel object                                                          *)
executeSubscription(source, field, variables_, tr) ==
    IF field.Name \notin DOMAIN SubscriptionResolvers
    THEN Fault("no subscription resolver found for field", tr)
    ELSE Let([res \in {callResolver("subscription",
                                    SubscriptionResolvers[field.Name],
                                    source, field, variables_, tr)} |->
             IF res.panic
             THEN res
             ELSE IF res.err # NoError
             THEN Fault(res.err, res.trace)
             ELSE IF res.val.kind = "chan" /\ res.val.elem = "interface{}"
             THEN Return([res.val EXCEPT !.dir = "recv"], res.trace)
             ELSE Fault("subscription resolver did not return a channel",
                        res.trace)])

(***************************************************************************)
(* Inputs.  A query text is written as a sequence of lexemes, joined by    *)
(* single spaces into the bytes the handler receives.                      *)
(***************************************************************************)
Lx ==
    [query |-> <<113, 117, 101, 114, 121>>,
     mutation |-> <<109, 117, 116, 97, 116, 105, 111, 110>>,
     subscription |-> <<115, 117, 98, 115, 99, 114, 105, 112, 116, 105, 111, 110>>,
     type |-> <<116, 121, 112, 101>>,
     lbrace |-> <<123>>,
     rbrace |-> <<125>>,
     lparen |-> <<40>>,
     rparen |-> <<41>>,
     colon |-> <<58>>,
     comma |-> <<44>>,
     dollar |-> <<36>>,
     true |-> <<116, 114, 117, 101>>,
     one |-> <<49>>,
     hello |-> <<104, 101, 108, 108, 111>>,
     names |-> <<110, 97, 109, 101, 115>>,
     Name |-> <<78, 97, 109, 101>>,
     missing |-> <<109, 105, 115, 115, 105, 110, 103>>,
     fail |-> <<102, 97, 105, 108>>,
     v |-> <<118>>,
     A |-> <<65>>,
     B |-> <<66>>,
     Query |-> <<81, 117, 101, 114, 121>>,
     Mutation |-> <<77, 117, 116, 97, 116, 105, 111, 110>>,
     Subscription |-> <<83, 117, 98, 115, 99, 114, 105, 112, 116, 105, 111, 110>>,
     lbracket |-> <<91>>,
     rbracket |-> <<93>>,
     bang |-> <<33>>,
     String |-> <<83, 116, 114, 105, 110, 103>>,
     Int |-> <<73, 110, 116>>,
     ID |-> <<73, 68>>]

RECURSIVE Join(_)
Join(lexemes) ==
    IF lexemes = <<>> THEN <<>>
    ELSE IF Len(lexemes) = 1 THEN lexemes[1]
    ELSE lexemes[1] \o <<Ch.space>> \o Join(Tail(lexemes))

RECURSIVE Flatten(_)
Flatten(seqs) == IF seqs = <<>> THEN <<>> ELSE seqs[1] \o Flatten(Tail(seqs))

SeqsUpTo(S, n) == UNION {[1..k -> S] : k \in 0..n}

(* the most Register calls, the most fields of one selection set, the most *)
(* definitions of one document, the most lexemes of an arbitrary text and  *)
(* the number of goroutines                                                *)
MaxRegistrations == 2

MaxSelections == 2

MaxDefinitions == 3

MaxTokens == 3

NumGoroutines == 2

(* field forms: hello, hello(fail: true), names { Name }, *)
(* names { missing Name }                                 *)
FieldForms ==
    {<<Lx.hello>>,
     <<Lx.hello, Lx.lparen, Lx.fail, Lx.colon, Lx.true, Lx.rparen>>,
     <<Lx.names, Lx.lbrace, Lx.Name, Lx.rbrace>>,
     <<Lx.names, Lx.lbrace, Lx.missing, Lx.Name, Lx.rbrace>>,
     <<Lx.names, Lx.lbrace, Lx.hello, Lx.rbrace>>}

SelectionSetForms ==
    {<<Lx.lbrace>> \o Flatten(fs) \o <<Lx.rbrace>> :
        fs \in SeqsUpTo(FieldForms, MaxSelections)}

(* the empty text, `query`, `{ hello(fail) }`, `{ 1 }`,                  *)
(* `type A { hello: B } , { hello }`, `{ hello } , { names }`,            *)
(* `query { hello }`, `mutation { hello }`, `subscription { hello }`, and *)
(* `names { Name }` under each of the three keywords                      *)
OtherForms ==
    {<<>>,
     <<Lx.query>>,
     <<Lx.lbrace, Lx.hello, Lx.lparen, Lx.fail, Lx.rparen, Lx.rbrace>>,
     <<Lx.lbrace, Lx.one, Lx.rbrace>>,
     <<Lx.type, Lx.A, Lx.lbrace, Lx.hello, Lx.colon, Lx.B, Lx.rbrace,
       Lx.comma, Lx.lbrace, Lx.hello, Lx.rbrace>>,
     <<Lx.lbrace, Lx.hello, Lx.rbrace, Lx.comma, Lx.lbrace, Lx.names, Lx.rbrace>>,
     <<Lx.query, Lx.lbrace, Lx.hello, Lx.rbrace>>,
     <<Lx.mutation, Lx.lbrace, Lx.hello, Lx.rbrace>>,
     <<Lx.subscription, Lx.lbrace, Lx.hello, Lx.rbrace>>,
     <<Lx.query, Lx.lbrace, Lx.names, Lx.lbrace, Lx.Name, Lx.rbrace, Lx.rbrace>>,
     <<Lx.mutation, Lx.lbrace, Lx.names, Lx.lbrace, Lx.Name, Lx.rbrace, Lx.rbrace>>,
     <<Lx.subscription, Lx.lbrace, Lx.names, Lx.lbrace, Lx.Name, Lx.rbrace, Lx.rbrace>>}

(* the texts of the requests *)
QueryTexts ==
    {Join(ss) : ss \in SelectionSetForms} \cup {Join(f) : f \in OtherForms}

(* lexing and parsing each text: NewLexer, NewParser, ParseDocument, *)
(* tabulated once for all the texts the requests draw from           *)
ParseTable == [q \in QueryTexts |-> ParseDocument(NewParser(NewLexer(q)))]

FieldNames == {Lx.hello, Lx.names}

Environments == {EmptyMap}

Registries == {"query", "mutation", "subscription"}

NoResolver == "none"

(***************************************************************************)
(* Registration and request handling, one goroutine at a time.             *)
(***************************************************************************)
Init ==
    /\ QueryResolvers = EmptyMap
    /\ MutationResolvers = EmptyMap
    /\ SubscriptionResolvers = EmptyMap
    /\ registrations = 0
    /\ lastRegistered = [k \in Registries \X FieldNames |-> NoResolver]
    /\ input = <<>>
    /\ variables = EmptyMap
    /\ pc = "idle"
    /\ parser = Nil
    /\ doc = Nil
    /\ response = NoData
    /\ err = NoError
    /\ trace = <<>>
    /\ accesses = [g \in 1..NumGoroutines |-> Nil]
    /\ fatal = FALSE
    /\ NoneInUse
    /\ executions = [g \in 1..NumGoroutines |-> Nil]

(* what a Register call leaves alone, and its history *)
Registered(registry, field, resolver) ==
    /\ registrations' = registrations + 1
    /\ lastRegistered' = [lastRegistered EXCEPT ![<<registry, field>>] = resolver]
    /\ UNCHANGED <<input, variables, pc, parser, doc, response, err, trace>>
    /\ UNCHANGED <<callVars, lexVars, streamVars, executions>>

(* RegisterQueryResolver keeping the entry a name already has *)
RegisterQueryResolverOnce(field, resolver) ==
    /\ pc = "idle"
    /\ registrations < MaxRegistrations
    /\ QueryResolvers' = IF field \in DOMAIN QueryResolvers
                         THEN QueryResolvers
                         ELSE MapPut(QueryResolvers, field, resolver)
    /\ UNCHANGED <<MutationResolvers, SubscriptionResolvers>>
    /\ Registered("query", field, resolver)
    /\ UNCHANGED <<accesses, fatal>>

RegisterQueryResolver(field, resolver) ==
    /\ pc = "idle"
    /\ registrations < MaxRegistrations
    /\ QueryResolvers' = MapPut(QueryResolvers, field, resolver)
    /\ UNCHANGED <<MutationResolvers, SubscriptionResolvers>>
    /\ Registered("query", field, resolver)
    /\ UNCHANGED <<accesses, fatal>>

RegisterMutationResolver(field, resolver) ==
    /\ pc = "idle"
    /\ registrations < MaxRegistrations
    /\ MutationResolvers' = MapPut(MutationResolvers, field, resolver)
    /\ UNCHANGED <<QueryResolvers, SubscriptionResolvers>>
    /\ Registered("mutation", field, resolver)
    /\ UNCHANGED <<accesses, fatal>>

RegisterSubscriptionResolver(field, resolver) ==
    /\ pc = "idle"
    /\ registrations < MaxRegistrations
    /\ SubscriptionResolvers' = MapPut(SubscriptionResolvers, field, resolver)
    /\ UNCHANGED <<QueryResolvers, MutationResolvers>>
    /\ Registered("subscription", field, resolver)
    /\ UNCHANGED <<accesses, fatal>>

(* GraphqlHandler on a request whose body decoded to (query, variables_):  *)
(* lex and parse the query, execute the document, write the result.  pc    *)
(* becomes "hung" when ParseDocument never returns, "crashed" when the     *)
(* execution panics, and "done" when the handler has written its answer.   *)
GraphqlHandler(query, variables_) ==
    /\ pc = "idle"
    /\ \E parsed \in {ParseTable[query]} :
        \E result \in {IF parsed.hang
                       THEN Nil
                       ELSE executeDocument(parsed.v, variables_)} :
            /\ input' = query
            /\ variables' = variables_
            /\ parser' = parsed.p
            /\ IF parsed.hang
               THEN /\ pc' = "hung"
                    /\ UNCHANGED <<doc, response, err, trace>>
               ELSE /\ doc' = parsed.v
                    /\ pc' = IF result.panic THEN "crashed" ELSE "done"
                    /\ response' = result.response
                    /\ err' = result.err
                    /\ trace' = result.trace
    /\ UNCHANGED <<QueryResolvers, MutationResolvers, SubscriptionResolvers,
                   registrations, lastRegistered, accesses, fatal>>
    /\ UNCHANGED <<callVars, lexVars, streamVars, executions>>

Next ==
    \/ \E f \in FieldNames, r \in Resolvers : RegisterQueryResolver(f, r)
    \/ \E f \in FieldNames, r \in Resolvers : RegisterMutationResolver(f, r)
    \/ \E f \in FieldNames, r \in Resolvers : RegisterSubscriptionResolver(f, r)
    \/ \E q \in QueryTexts, e \in Environments : GraphqlHandler(q, e)

Spec == Init /\ [][Next]_vars

(***************************************************************************)
(* Parsing alone: the parse of a text, one pass of ParseDocument's loop at *)
(* a time.                                                                 *)
(***************************************************************************)
ParseAlphabet ==
    {Lx.query, Lx.type, Lx.hello, Lx.one, Lx.lbrace, Lx.rbrace, Lx.lparen, Lx.comma}

(* every text of at most MaxTokens lexemes *)
ShortForms == {Flatten(ls) : ls \in SeqsUpTo({<<x>> : x \in ParseAlphabet}, MaxTokens)}

(* well-formed definitions, each with the node and the name it declares:   *)
(* `type Query { hello: A }`, `type Mutation { names: A }`,                *)
(* `type Subscription { hello: B }`, `query A { hello }`,                  *)
(* `mutation B { names }`                                                  *)
DefinitionForms ==
    {[form |-> <<Lx.type, Lx.Query, Lx.lbrace, Lx.hello, Lx.colon, Lx.A, Lx.rbrace>>,
      node |-> "TypeDefinition", name |-> Lx.Query],
     [form |-> <<Lx.type, Lx.Mutation, Lx.lbrace, Lx.names, Lx.colon, Lx.A, Lx.rbrace>>,
      node |-> "TypeDefinition", name |-> Lx.Mutation],
     [form |-> <<Lx.type, Lx.Subscription, Lx.lbrace, Lx.hello, Lx.colon, Lx.B, Lx.rbrace>>,
      node |-> "TypeDefinition", name |-> Lx.Subscription],
     [form |-> <<Lx.query, Lx.A, Lx.lbrace, Lx.hello, Lx.rbrace>>,
      node |-> "OperationDefinition", name |-> Lx.A],
     [form |-> <<Lx.mutation, Lx.B, Lx.lbrace, Lx.names, Lx.rbrace>>,
      node |-> "OperationDefinition", name |-> Lx.B]}

DefinitionSequences == SeqsUpTo(DefinitionForms, MaxDefinitions)

SequenceForm(ds) == Flatten([i \in 1..Len(ds) |-> ds[i].form])

(* what precedes the selection set of an operation: nothing, a keyword, a *)
(* keyword and a name, a keyword, a name and variable definitions         *)
KeywordForms ==
    {<<Lx.query>>, <<Lx.mutation>>, <<Lx.subscription>>,
     <<Lx.query, Lx.A>>,
     <<Lx.mutation, Lx.A, Lx.lparen, Lx.dollar, Lx.v, Lx.colon, Lx.B, Lx.rparen>>}

OperationForms ==
    {pre \o ss : pre \in KeywordForms \cup {<<>>}, ss \in SelectionSetForms}

(* `{ hello(1) }`, `{ hello(fail) }`, `{ hello(fail: ) }`, *)
(* `query (v: A) { hello }`                                *)
MalformedForms ==
    {<<Lx.lbrace, Lx.hello, Lx.lparen, Lx.one, Lx.rparen, Lx.rbrace>>,
     <<Lx.lbrace, Lx.hello, Lx.lparen, Lx.fail, Lx.rparen, Lx.rbrace>>,
     <<Lx.lbrace, Lx.hello, Lx.lparen, Lx.fail, Lx.colon, Lx.rparen, Lx.rbrace>>,
     <<Lx.query, Lx.lparen, Lx.v, Lx.colon, Lx.A, Lx.rparen,
       Lx.lbrace, Lx.hello, Lx.rbrace>>}

(* the type annotations of a field: `A`, `ID!`, `[B]`, `[String!]!` *)
Annotations ==
    {<<Lx.A>>, <<Lx.ID, Lx.bang>>, <<Lx.lbracket, Lx.B, Lx.rbracket>>,
     <<Lx.lbracket, Lx.String, Lx.bang, Lx.rbracket, Lx.bang>>}

(* the names of the fields of a type definition, in declaration order *)
TypeFieldNames == <<Lx.hello, Lx.names, Lx.v, Lx.fail>>

(* `f1: T1, ..., fk: Tk` for the annotations ts *)
RECURSIVE FieldList(_, _)
FieldList(ts, i) ==
    IF i > Len(ts)
    THEN <<>>
    ELSE <<TypeFieldNames[i], Lx.colon>> \o ts[i]
         \o (IF i < Len(ts) THEN <<Lx.comma>> ELSE <<>>)
         \o FieldList(ts, i + 1)

(* `type Query { f1: T1, ..., fk: Tk }`, with the names f1..fk *)
AnnotatedTypeForms ==
    {[form |-> <<Lx.type, Lx.Query, Lx.lbrace>> \o FieldList(ts, 1) \o <<Lx.rbrace>>,
      name |-> Lx.Query,
      fields |-> SubSeq(TypeFieldNames, 1, Len(ts))] :
        ts \in SeqsUpTo(Annotations, MaxSelections) \ {<<>>}}

(* the string literal whose content is the word w *)
Quoted(w) == <<Ch.quote>> \o w \o <<Ch.quote>>

(* texts with a string literal at the top level: "query", "type",         *)
(* "hello", "query" { hello }, "mutation" A { hello },                    *)
(* "type" A { hello: B }, "hello" { hello }, hello "query"                *)
StringForms ==
    {<<Quoted(Lx.query)>>, <<Quoted(Lx.type)>>, <<Quoted(Lx.hello)>>,
     <<Quoted(Lx.query), Lx.lbrace, Lx.hello, Lx.rbrace>>,
     <<Quoted(Lx.mutation), Lx.A, Lx.lbrace, Lx.hello, Lx.rbrace>>,
     <<Quoted(Lx.type), Lx.A, Lx.lbrace, Lx.hello, Lx.colon, Lx.B, Lx.rbrace>>,
     <<Quoted(Lx.hello), Lx.lbrace, Lx.hello, Lx.rbrace>>,
     <<Lx.hello, Quoted(Lx.query)>>}

ParseForms ==
    ShortForms \cup {SequenceForm(ds) : ds \in DefinitionSequences}
    \cup OperationForms \cup KeywordForms \cup MalformedForms
    \cup {t.form : t \in AnnotatedTypeForms} \cup StringForms

ParseTexts == {Join(f) : f \in ParseForms}

InitParse ==
    /\ QueryResolvers = EmptyMap
    /\ MutationResolvers = EmptyMap
    /\ SubscriptionResolvers = EmptyMap
    /\ registrations = 0
    /\ lastRegistered = [k \in Registries \X FieldNames |-> NoResolver]
    /\ input \in ParseTexts
    /\ variables = EmptyMap
    /\ pc = "start"
    /\ parser = Nil
    /\ doc = Nil
    /\ response = NoData
    /\ err = NoError
    /\ trace = <<>>
    /\ accesses = [g \in 1..NumGoroutines |-> Nil]
    /\ fatal = FALSE
    /\ NoneInUse
    /\ executions = [g \in 1..NumGoroutines |-> Nil]

ParseFrame ==
    UNCHANGED <<QueryResolvers, MutationResolvers, SubscriptionResolvers,
                registrations, lastRegistered, input, variables, response,
                err, trace, accesses, fatal,
                callVars, lexVars, streamVars, executions>>

(* NewLexer, NewParser and the `doc := &Document{}` of ParseDocument *)
StartParse ==
    /\ pc = "start"
    /\ parser' = NewParser(NewLexer(input))
    /\ doc' = Document(<<>>)
    /\ pc' = "parsing"
    /\ ParseFrame

(* one pass of ParseDocument's loop; a pass that never ends leaves "hung" *)
ParseDefinitionStep ==
    /\ pc = "parsing"
    /\ parser.curToken.Type # TokenType.EOF
    /\ \E r \in {ParseDocumentBody(parser, doc.Definitions)} :
        /\ parser' = r.p
        /\ IF r.p.hang
           THEN pc' = "hung" /\ UNCHANGED doc
           ELSE pc' = "parsing" /\ doc' = Document(r.v)
    /\ ParseFrame

(* ParseDocument's loop ends at EOF and the Document is returned *)
ReturnDocument ==
    /\ pc = "parsing"
    /\ parser.curToken.Type = TokenType.EOF
    /\ pc' = "parsed"
    /\ UNCHANGED <<parser, doc>>
    /\ ParseFrame

NextParse == StartParse \/ ParseDefinitionStep \/ ReturnDocument

SpecParse == InitParse /\ [][NextParse]_vars

(***************************************************************************)
(* Goroutines.  A registration is the map assignment of a Register         *)
(* function, and a lookup the map read of resolveField or                  *)
(* executeSubscription; neither takes a lock, so each lasts from its Begin *)
(* to its End with nothing to keep another goroutine out.  When a write    *)
(* overlaps another access of the same map, the runtime may detect it and  *)
(* abort the process (fatal error: concurrent map writes), or not.         *)
(***************************************************************************)
Goroutines == 1..NumGoroutines

Access(registry, mode, field, resolver) ==
    [node |-> "access", registry |-> registry, mode |-> mode, field |-> field,
     resolver |-> resolver]

(* goroutine g's access overlaps a conflicting access of another goroutine *)
Overlaps(g) ==
    \E h \in Goroutines \ {g} :
        /\ accesses[h] # Nil
        /\ accesses[h].registry = accesses[g].registry
        /\ "write" \in {accesses[g].mode, accesses[h].mode}

RaceFrame ==
    UNCHANGED <<input, variables, pc, parser, doc, response, err, trace,
                callVars, lexVars, streamVars, executions>>

BeginRegister(g, registry, field, resolver) ==
    /\ ~fatal
    /\ accesses[g] = Nil
    /\ registrations < MaxRegistrations
    /\ accesses' = [accesses EXCEPT ![g] = Access(registry, "write", field, resolver)]
    /\ registrations' = registrations + 1
    /\ UNCHANGED <<QueryResolvers, MutationResolvers, SubscriptionResolvers,
                   lastRegistered, fatal>>
    /\ RaceFrame

EndRegister(g) ==
    /\ ~fatal
    /\ accesses[g] # Nil
    /\ accesses[g].mode = "write"
    /\ \E a \in {accesses[g]} :
        /\ QueryResolvers' = IF a.registry = "query"
                             THEN MapPut(QueryResolvers, a.field, a.resolver)
                             ELSE QueryResolvers
        /\ MutationResolvers' = IF a.registry = "mutation"
                                THEN MapPut(MutationResolvers, a.field, a.resolver)
                                ELSE MutationResolvers
        /\ SubscriptionResolvers' = IF a.registry = "subscription"
                                    THEN MapPut(SubscriptionResolvers, a.field, a.resolver)
                                    ELSE SubscriptionResolvers
        /\ lastRegistered' = [lastRegistered EXCEPT ![<<a.registry, a.field>>] = a.resolver]
    /\ accesses' = [accesses EXCEPT ![g] = Nil]
    /\ UNCHANGED <<registrations, fatal>>
    /\ RaceFrame

BeginLookup(g, registry, field) ==
    /\ ~fatal
    /\ accesses[g] = Nil
    /\ accesses' = [accesses EXCEPT ![g] = Access(registry, "read", field, NoResolver)]
    /\ UNCHANGED <<QueryResolvers, MutationResolvers, SubscriptionResolvers,
                   registrations, lastRegistered, fatal>>
    /\ RaceFrame

EndLookup(g) ==
    /\ ~fatal
    /\ accesses[g] # Nil
    /\ accesses[g].mode = "read"
    /\ accesses' = [accesses EXCEPT ![g] = Nil]
    /\ UNCHANGED <<QueryResolvers, MutationResolvers, SubscriptionResolvers,
                   registrations, lastRegistered, fatal>>
    /\ RaceFrame

(* the runtime's check fires in a goroutine whose access is overlapped *)
FatalError(g) ==
    /\ ~fatal
    /\ accesses[g] # Nil
    /\ Overlaps(g)
    /\ fatal' = TRUE
    /\ UNCHANGED <<QueryResolvers, MutationResolvers, SubscriptionResolvers,
                   registrations, lastRegistered, accesses>>
    /\ RaceFrame

NextRace ==
    \/ \E g \in Goroutines, k \in Registries, f \in FieldNames, r \in Resolvers :
          BeginRegister(g, k, f, r)
    \/ \E g \in Goroutines : EndRegister(g)
    \/ \E g \in Goroutines, k \in Registries, f \in FieldNames : BeginLookup(g, k, f)
    \/ \E g \in Goroutines : EndLookup(g)
    \/ \E g \in Goroutines : FatalError(g)

SpecRace == Init /\ [][NextRace]_vars

(***************************************************************************)
(* Subscriptions.  SubscriptionHandler parses the request, calls           *)
(* executeSubscription for the first field of the subscription and then    *)
(* drains the channel: one goroutine, the producer, sends events and may   *)
(* close the channel; the handler's loop `for event := range subCh`        *)
(* receives them and writes each to the connection.  A channel is          *)
(* [buf, cap, closed]; the value of a send that waits on an unbuffered     *)
(* channel for its receiver is held in buf as well.                        *)
(***************************************************************************)

(* the most events a producer sends *)
MaxEvents == 2

Events == {"event1", "event2"}

(* `subscription { hello }`, `subscription { hello(fail: true) }`,         *)
(* `subscription { names hello }`, `subscription A { names }`,             *)
(* `{ hello }`, `query { hello }`, `subscription { }`, `subscription`,     *)
(* `type A { hello: B }`, `subscription { hello(fail) }`,                  *)
(* `subscription { (` and the empty text                                   *)
SubscriptionForms ==
    {<<Lx.subscription, Lx.lbrace, Lx.hello, Lx.rbrace>>,
     <<Lx.subscription, Lx.lbrace, Lx.hello, Lx.lparen, Lx.fail, Lx.colon,
       Lx.true, Lx.rparen, Lx.rbrace>>,
     <<Lx.subscription, Lx.lbrace, Lx.names, Lx.hello, Lx.rbrace>>,
     <<Lx.subscription, Lx.A, Lx.lbrace, Lx.names, Lx.rbrace>>,
     <<Lx.lbrace, Lx.hello, Lx.rbrace>>,
     <<Lx.query, Lx.lbrace, Lx.hello, Lx.rbrace>>,
     <<Lx.subscription, Lx.lbrace, Lx.rbrace>>,
     <<Lx.subscription>>,
     <<Lx.type, Lx.A, Lx.lbrace, Lx.hello, Lx.colon, Lx.B, Lx.rbrace>>,
     <<Lx.subscription, Lx.lbrace, Lx.hello, Lx.lparen, Lx.fail, Lx.rparen,
       Lx.rbrace>>,
     <<Lx.subscription, Lx.lbrace, Lx.lparen>>,
     <<>>}

SubscriptionTexts == {Join(f) : f \in SubscriptionForms}

SubscriptionParseTable ==
    [q \in SubscriptionTexts |-> ParseDocument(NewParser(NewLexer(q)))]

(* make(chan interface{}, cap) *)
MakeChan(cap) == [buf |-> <<>>, cap |-> cap, closed |-> FALSE]

(* what the handler does with a parsed Document up to the loop:            *)
(* [pc, err, subCh, trace], where pc is "done" when it wrote a message and *)
(* returned (err is the message, or the fault of executeSubscription),     *)
(* "crashed" when it panicked and "streaming" when it entered the loop.    *)
(* len(op.SelectionSet.Selections) of the nil pointer is a nil dereference.*)
subscribe(doc_, variables_) ==
    IF Len(doc_.Definitions) = 0
    THEN [pc |-> "done", err |-> "no subscription definition found",
          subCh |-> NilValue, trace |-> <<>>]
    ELSE IF \/ doc_.Definitions[1].node # "OperationDefinition"
            \/ doc_.Definitions[1].Operation # Keyword.subscription
    THEN [pc |-> "done", err |-> "provided operation is not a subscription",
          subCh |-> NilValue, trace |-> <<>>]
    ELSE IF doc_.Definitions[1].SelectionSet = Nil
    THEN [pc |-> "crashed", err |-> NoError, subCh |-> NilValue, trace |-> <<>>]
    ELSE IF Len(doc_.Definitions[1].SelectionSet.Selections) = 0
    THEN [pc |-> "done", err |-> "subscription selection set is empty",
          subCh |-> NilValue, trace |-> <<>>]
    ELSE Let([r \in {executeSubscription(
                         NilValue, doc_.Definitions[1].SelectionSet.Selections[1],
                         variables_, <<>>)} |->
             [pc |-> IF r.panic THEN "crashed"
                     ELSE IF r.err # NoError THEN "done"
                     ELSE "streaming",
              err |-> r.err, subCh |-> r.val, trace |-> r.trace]])

StreamFrame ==
    UNCHANGED <<QueryResolvers, MutationResolvers, SubscriptionResolvers,
                registrations, lastRegistered, response, accesses, fatal,
                callVars, lexVars, executions>>

(* the channel is the one the invoked resolver made, if it made one *)
SubscriptionHandler(query, variables_) ==
    /\ pc = "idle"
    /\ \E parsed \in {SubscriptionParseTable[query]} :
        \E s \in {IF parsed.hang THEN Nil ELSE subscribe(parsed.v, variables_)} :
            /\ input' = query
            /\ variables' = variables_
            /\ parser' = parsed.p
            /\ IF parsed.hang
               THEN /\ pc' = "hung"
                    /\ UNCHANGED <<doc, err, trace, subCh, channel>>
               ELSE /\ doc' = parsed.v
                    /\ pc' = s.pc
                    /\ err' = s.err
                    /\ trace' = s.trace
                    /\ subCh' = s.subCh
                    /\ channel' = IF s.subCh # NilValue
                                  THEN MakeChan(ChannelCap(s.subCh.id))
                                  ELSE Nil
    /\ UNCHANGED <<pushed, delivered>>
    /\ StreamFrame

(* a send that never waits for the receiver, as on a channel with room *)
PushWithoutWaiting(event) ==
    /\ pc \in {"streaming", "torn"}
    /\ ~channel.closed
    /\ Len(pushed) < MaxEvents
    /\ channel' = [channel EXCEPT !.buf = Append(channel.buf, event)]
    /\ pushed' = Append(pushed, event)
    /\ UNCHANGED <<input, variables, pc, parser, doc, err, trace, subCh, delivered>>
    /\ StreamFrame

(* the producer's `ch <- event`: it completes at once when the buffer has  *)
(* room, and on an unbuffered channel it waits for the receiver            *)
Push(event) ==
    /\ pc \in {"streaming", "torn"}
    /\ ~channel.closed
    /\ Len(pushed) < MaxEvents
    /\ IF channel.cap = 0
       THEN channel.buf = <<>>
       ELSE Len(channel.buf) < channel.cap
    /\ channel' = [channel EXCEPT !.buf = Append(channel.buf, event)]
    /\ pushed' = Append(pushed, event)
    /\ UNCHANGED <<input, variables, pc, parser, doc, err, trace, subCh, delivered>>
    /\ StreamFrame

(* the producer's close(ch), which it reaches only after its sends *)
Close ==
    /\ pc \in {"streaming", "torn"}
    /\ ~channel.closed
    /\ channel.cap = 0 => channel.buf = <<>>
    /\ channel' = [channel EXCEPT !.closed = TRUE]
    /\ UNCHANGED <<input, variables, pc, parser, doc, err, trace, subCh,
                   pushed, delivered>>
    /\ StreamFrame

(* one pass of the loop: the range clause receives the oldest event and *)
(* WriteJSON succeeds (ok) or fails, which leaves the loop              *)
Receive(ok) ==
    /\ pc = "streaming"
    /\ channel.buf # <<>>
    /\ channel' = [channel EXCEPT !.buf = Tail(channel.buf)]
    /\ delivered' = Append(delivered, Head(channel.buf))
    /\ pc' = IF ok THEN "streaming" ELSE "torn"
    /\ UNCHANGED <<input, variables, parser, doc, err, trace, subCh, pushed>>
    /\ StreamFrame

(* EndOfStream leaving the loop as soon as the channel is closed, with *)
(* events still in the buffer                                         *)
EndOfStreamAtClose ==
    /\ pc = "streaming"
    /\ channel.closed
    /\ pc' = "ended"
    /\ UNCHANGED <<input, variables, parser, doc, err, trace, subCh, channel,
                   pushed, delivered>>
    /\ StreamFrame

(* the range clause finds the channel closed and empty: the loop ends *)
EndOfStream ==
    /\ pc = "streaming"
    /\ channel.closed
    /\ channel.buf = <<>>
    /\ pc' = "ended"
    /\ UNCHANGED <<input, variables, parser, doc, err, trace, subCh, channel,
                   pushed, delivered>>
    /\ StreamFrame

NextSubscription ==
    \/ \E f \in FieldNames : RegisterQueryResolver(f, "hello")
    \/ \E f \in FieldNames : RegisterMutationResolver(f, "hello")
    \/ \E f \in FieldNames, r \in StreamResolvers : RegisterSubscriptionResolver(f, r)
    \/ \E q \in SubscriptionTexts, e \in Environments : SubscriptionHandler(q, e)
    \/ \E event \in Events : Push(event)
    \/ Close
    \/ \E ok \in BOOLEAN : Receive(ok)
    \/ EndOfStream

(* the handler's goroutine keeps running: a pass of the loop that can be *)
(* taken is taken                                                        *)
SpecSubscription ==
    /\ Init
    /\ [][NextSubscription]_vars
    /\ WF_vars(Receive(TRUE) \/ Receive(FALSE) \/ EndOfStream)

(***************************************************************************)
(* Executions that share a Document.  The Document is built once and each  *)
(* goroutine runs executeDocument on it with its own variables, one pass   *)
(* of the root executeSelectionSet loop at a time.  An execution is        *)
(* [variables, i, result, err, status]: i is the index of the next root    *)
(* field, result the map built so far, and status "running", "returned"    *)
(* or "crashed".  No step of executeDocument assigns to a node of the      *)
(* Document.                                                               *)
(***************************************************************************)

(* `{ hello(fail: $v) }`, `{ hello(fail: $v) names { Name } }`,            *)
(* `{ names { Name } hello(fail: $v) }`, `{ names { missing } }`,          *)
(* `query`, `type A { hello: B }` and the empty text                       *)
SharedForms ==
    {<<Lx.lbrace, Lx.hello, Lx.lparen, Lx.fail, Lx.colon, Lx.dollar, Lx.v,
       Lx.rparen, Lx.rbrace>>,
     <<Lx.lbrace, Lx.hello, Lx.lparen, Lx.fail, Lx.colon, Lx.dollar, Lx.v,
       Lx.rparen, Lx.names, Lx.lbrace, Lx.Name, Lx.rbrace, Lx.rbrace>>,
     <<Lx.lbrace, Lx.names, Lx.lbrace, Lx.Name, Lx.rbrace, Lx.hello, Lx.lparen,
       Lx.fail, Lx.colon, Lx.dollar, Lx.v, Lx.rparen, Lx.rbrace>>,
     <<Lx.lbrace, Lx.names, Lx.lbrace, Lx.missing, Lx.rbrace, Lx.rbrace>>,
     <<Lx.query>>,
     <<Lx.type, Lx.A, Lx.lbrace, Lx.hello, Lx.colon, Lx.B, Lx.rbrace>>,
     <<>>}

SharedTexts == {Join(f) : f \in SharedForms}

SharedParseTable == [q \in SharedTexts |-> ParseDocument(NewParser(NewLexer(q)))]

(* the variable environments: none, v = true, v = false *)
SharedEnvironments ==
    {EmptyMap, MapPut(EmptyMap, Lx.v, GoBool(TRUE)), MapPut(EmptyMap, Lx.v, GoBool(FALSE))}

Execution(variables_, i, result, e, status) ==
    [variables |-> variables_, i |-> i, result |-> result, err |-> e,
     status |-> status]

SharedFrame ==
    UNCHANGED <<QueryResolvers, MutationResolvers, SubscriptionResolvers,
                registrations, lastRegistered, variables, parser, response,
                err, trace, accesses, fatal, callVars, lexVars, streamVars>>

(* doc := parser.ParseDocument(), once, before the executions *)
ShareDocument(query) ==
    /\ pc = "idle"
    /\ ~SharedParseTable[query].hang
    /\ input' = query
    /\ doc' = SharedParseTable[query].v
    /\ pc' = "shared"
    /\ UNCHANGED executions
    /\ SharedFrame

(* executeDocument up to its call of executeSelectionSet *)
BeginExecution(g, variables_) ==
    /\ pc = "shared"
    /\ executions[g] = Nil
    /\ executions' =
          [executions EXCEPT ![g] =
              IF Len(doc.Definitions) = 0
              THEN Execution(variables_, 0, NoData, "no definitions found", "returned")
              ELSE IF doc.Definitions[1].node # "OperationDefinition"
              THEN Execution(variables_, 0, NoData, "unsupported definition type",
                             "returned")
              ELSE IF doc.Definitions[1].SelectionSet = Nil
              THEN Execution(variables_, 0, NoData, NoError, "crashed")
              ELSE Execution(variables_, 1, EmptyMap, NoError, "running")]
    /\ UNCHANGED <<input, pc, doc>>
    /\ SharedFrame

(* the Document after the pass for root field i has stored, in the       *)
(* Argument nodes of that field, the values it looked up for their       *)
(* variables                                                             *)
BoundInPlace(doc_, i, variables_) ==
    [doc_ EXCEPT !.Definitions[1].SelectionSet.Selections[i].Arguments =
        [k \in DOMAIN @ |->
            IF /\ @[k].Value # Nil
               /\ @[k].Value.Kind = "Variable"
               /\ @[k].Value.Literal \in DOMAIN variables_
            THEN Argument(@[k].Name,
                          Value("Boolean",
                                IF variables_[@[k].Value.Literal].b
                                THEN Keyword.true
                                ELSE Keyword.false,
                                EmptyMap, <<>>))
            ELSE @[k]]]

(* the execution after one pass of the root loop, or after the loop's end, *)
(* where executeDocument stores the map under "data" and returns           *)
executeStep(x, doc_) ==
    IF x.i > Len(doc_.Definitions[1].SelectionSet.Selections)
    THEN [x EXCEPT !.result = [k \in {"data"} |-> GoMap(x.result)],
                   !.status = "returned"]
    ELSE Let([field \in {doc_.Definitions[1].SelectionSet.Selections[x.i]} |->
         Let([step \in {executeSelection(
                            field,
                            resolveField(NilValue, field, x.variables, <<>>),
                            x.variables)} |->
             IF ~step.done
             THEN [x EXCEPT !.i = x.i + 1,
                            !.result = MapPut(x.result, field.Name, step.r.val)]
             ELSE IF step.r.panic
             THEN [x EXCEPT !.result = NoData, !.status = "crashed"]
             ELSE [x EXCEPT !.result = NoData, !.err = step.r.err,
                            !.status = "returned"]])])

(* ExecuteStep binding the variables of the field's arguments in place *)
ExecuteStepInPlace(g) ==
    /\ pc = "shared"
    /\ executions[g] # Nil
    /\ executions[g].status = "running"
    /\ executions' = [executions EXCEPT ![g] = executeStep(executions[g], doc)]
    /\ doc' = IF executions[g].i > Len(doc.Definitions[1].SelectionSet.Selections)
              THEN doc
              ELSE BoundInPlace(doc, executions[g].i, executions[g].variables)
    /\ UNCHANGED <<input, pc>>
    /\ SharedFrame

(* one pass of goroutine g's root loop, or its return *)
ExecuteStep(g) ==
    /\ pc = "shared"
    /\ executions[g] # Nil
    /\ executions[g].status = "running"
    /\ executions' = [executions EXCEPT ![g] = executeStep(executions[g], doc)]
    /\ UNCHANGED <<input, pc, doc>>
    /\ SharedFrame

NextShared ==
    \/ RegisterQueryResolver(Str.hello, "dummyResolver")
    \/ RegisterQueryResolver(Str.names, "names")
    \/ \E q \in SharedTexts : ShareDocument(q)
    \/ \E g \in Goroutines, e \in SharedEnvironments : BeginExecution(g, e)
    \/ \E g \in Goroutines : ExecuteStep(g)

SpecShared == Init /\ [][NextShared]_vars

(***************************************************************************)
(* Direct calls.  The functions that the handlers reach only with what the *)
(* parser built are called here as the unit tests call them, on arguments  *)
(* built by hand: reflectResolve, buildValue, resolveArgument, parseType.  *)
(***************************************************************************)

(* the records of the tests and of the README: DummyStruct, sample, User   *)
(* (with no friends) and dummyDefinition, whose one field is not exported  *)
Records ==
    [DummyStruct |->
        GoStruct(<<StructField(Str.FieldA, TRUE, Str.fieldA, GoString(Str.valueA)),
                   StructField(Str.FieldB, FALSE, <<>>, GoInt(99))>>),
     sample |->
        GoStruct(<<StructField(Str.Test, FALSE, <<>>, GoInt(100)),
                   StructField(Str.JsonField, TRUE, Str.json_field,
                               GoString(Str.jsonValue))>>),
     User |->
        GoStruct(<<StructField(Str.ID, TRUE, Str.id, GoString(Str.u1)),
                   StructField(Str.Name, TRUE, Str.name, GoString(Str.Alice)),
                   StructField(Str.Age, TRUE, Str.age, GoInt(30)),
                   StructField(Str.Friends, TRUE, Str.friendsOmitempty,
                               GoSlice(<<>>))>>),
     dummyDefinition |->
        GoStruct(<<StructField(Str.token, FALSE, <<>>, GoString(Str.hello))>>)]

(* sources: the records, pointers to them, a nil pointer, nonStruct(5) and *)
(* the nil interface                                                       *)
ReflectSources ==
    {Records[r] : r \in DOMAIN Records} \cup
    {GoPtr(Records[r]) : r \in DOMAIN Records} \cup
    {GoPtr(NilValue), GoInt(5), NilValue}

ReflectNames ==
    {Str.fieldA, Str.FIELDB, Str.nonexistent, Str.token, Str.json_field,
     Str.Test, Str.friends, Str.name, Str.ID}

(* the literals of Int values: 42, 007, -5, the empty literal, 12a, and   *)
(* two digit runs beyond the 64 bits of an int, 9223372036854775808 and   *)
(* 99999999999999999999                                                   *)
IntLiterals ==
    {<<52, 50>>, <<48, 48, 55>>, <<45, 53>>, <<>>, <<49, 50, 97>>,
     <<57, 50, 50, 51, 51, 55, 50, 48, 51, 54, 56, 53, 52, 55, 55, 53, 56, 48, 56>>,
     <<57, 57, 57, 57, 57, 57, 57, 57, 57, 57, 57, 57, 57, 57, 57, 57, 57, 57, 57, 57>>}

(* scalar Values, as the parser builds them and as the tests do *)
ScalarValues ==
    {Value("Int", lit, EmptyMap, <<>>) : lit \in IntLiterals} \cup
    {Value("Variable", lit, EmptyMap, <<>>) : lit \in {Str.var1, Lx.missing, <<>>}} \cup
    {Value("Boolean", lit, EmptyMap, <<>>) : lit \in {Keyword.true, Keyword.false, Str.TRUE}} \cup
    {Value("String", lit, EmptyMap, <<>>) : lit \in {Str.hello, <<>>, Keyword.true}} \cup
    {Value("Enum", Str.RED, EmptyMap, <<>>),
     Value("Illegal", Str.at, EmptyMap, <<>>),
     Value("Foo", Str.dummy, EmptyMap, <<>>)}

(* composite Values: [1, 2, 3], [$var1, $missing, "hello"], [],           *)
(* [[1, 2], {id: 99}], {id: 99}, {}, {id: $var1, name: [$var1, 2]}        *)
IntValue(lit) == Value("Int", lit, EmptyMap, <<>>)

VariableValue(name) == Value("Variable", name, EmptyMap, <<>>)

ArrayValue(list) == Value("Array", <<>>, EmptyMap, list)

ObjectValue(fields) == Value("Object", <<>>, fields, <<>>)

CompositeValues ==
    {ArrayValue(<<IntValue(<<49>>), IntValue(<<50>>), IntValue(<<51>>)>>),
     ArrayValue(<<VariableValue(Str.var1), VariableValue(Lx.missing),
                  Value("String", Str.hello, EmptyMap, <<>>)>>),
     ArrayValue(<<>>),
     ArrayValue(<<ArrayValue(<<IntValue(<<49>>), IntValue(<<50>>)>>),
                  ObjectValue(MapPut(EmptyMap, Str.id, IntValue(<<57, 57>>)))>>),
     ObjectValue(MapPut(EmptyMap, Str.id, IntValue(<<57, 57>>))),
     ObjectValue(EmptyMap),
     ObjectValue(MapPut(MapPut(EmptyMap, Str.id, VariableValue(Str.var1)),
                        Str.name,
                        ArrayValue(<<VariableValue(Str.var1), IntValue(<<50>>)>>)))}

(* argument lists: none, (id: 1), (id: 1, name: "hello"), (id: 1, id: 2), *)
(* and (name: v, id: $var1) for each composite Value v                    *)
ArgumentLists ==
    {<<>>,
     <<Argument(Str.id, IntValue(<<49>>))>>,
     <<Argument(Str.id, IntValue(<<49>>)),
       Argument(Str.name, Value("String", Str.hello, EmptyMap, <<>>))>>,
     <<Argument(Str.id, IntValue(<<49>>)), Argument(Str.id, IntValue(<<50>>))>>}
    \cup {<<Argument(Str.name, v), Argument(Str.id, VariableValue(Str.var1))>> :
              v \in CompositeValues}

(* variables: nil, and var1 = 123 *)
CallEnvironments == {EmptyMap, MapPut(EmptyMap, Str.var1, GoInt(123))}

(* the most lists a type text nests *)
MaxTypeDepth == 2

(* `!` or nothing after a type, with the NonNull it announces *)
Bangs == {[form |-> <<>>, nonNull |-> FALSE], [form |-> <<Lx.bang>>, nonNull |-> TRUE]}

(* the type texts of at most d nested lists, each with the Type it writes *)
RECURSIVE TypeCases(_)
TypeCases(d) ==
    {[form |-> <<n>> \o b.form, type |-> Type(n, b.nonNull, FALSE, Nil)] :
        n \in {Lx.String, Lx.Int}, b \in Bangs} \cup
    (IF d = 0
     THEN {}
     ELSE {[form |-> <<Lx.lbracket>> \o c.form \o <<Lx.rbracket>> \o b.form,
            type |-> Type(<<>>, b.nonNull, TRUE, c.type)] :
              c \in TypeCases(d - 1), b \in Bangs})

(* texts that are no type: the empty text, `!`, `[`, `[String` *)
NoTypeForms == {<<>>, <<Lx.bang>>, <<Lx.lbracket>>, <<Lx.lbracket, Lx.String>>}

(* what a resolver may have returned: scalars, a map, the nil interface, a *)
(* nil pointer, a pointer to an int, a record, a pointer to a record, and *)
(* slices: empty, of records, of scalars, of nil pointers, of nil          *)
(* interfaces                                                              *)
NestedResults ==
    {GoString(Str.hello), GoInt(5), GoBool(TRUE),
     GoMap(MapPut(EmptyMap, Str.name, GoString(Str.Alice))),
     NilValue, GoPtr(NilValue), GoPtr(GoInt(5)),
     Records.User, GoPtr(Records.User),
     GoSlice(<<>>),
     GoSlice(<<Records.User, GoPtr(Records.User)>>),
     GoSlice(<<GoString(Str.Alice), GoString(Str.Bob)>>),
     GoSlice(<<GoInt(1)>>),
     GoSlice(<<GoPtr(NilValue)>>),
     GoSlice(<<GoPtr(NilValue), GoInt(1)>>),
     GoSlice(<<NilValue>>)}

(* the selection sets `{ name }`, `{ name age }` and `{ }` *)
NestedSelectionSets ==
    {SelectionSet(<<Field(Str.name, <<>>, Nil)>>),
     SelectionSet(<<Field(Str.name, <<>>, Nil), Field(Str.age, <<>>, Nil)>>),
     SelectionSet(<<>>)}

(* value texts, each with the Value parseValue is to make of it and the   *)
(* type of the token it is to leave current: `@ hello`, `)`, `: 1`, the   *)
(* empty text, `{ 1 : 1 }`, `{ "hello" : 1 }`, `{ hello 1 }`, `{ hello }`, *)
(* `{ hello`, `$`, `$ 1`, `$ )`, `{ hello : "world"`, `{`,                *)
(* `{ hello : 1 ,`, `{ hello : 1 , v :`, `{ hello : { v : 1`, `[ 1 , $ ]`, *)
(* `[ 1`, and the well-formed `1`, `true`, `$ v`, `{ hello : 1 }`         *)
IllegalValue(lit) == Value("Illegal", lit, EmptyMap, <<>>)

ValueCase(form, value, next) == [form |-> form, value |-> value, next |-> next]

ValueCases ==
    {ValueCase(<<Str.at, Lx.hello>>, IllegalValue(Str.at), TokenType.IDENT),
     ValueCase(<<Lx.rparen>>, IllegalValue(Lx.rparen), TokenType.EOF),
     ValueCase(<<Lx.colon, Lx.one>>, IllegalValue(Lx.colon), TokenType.INT),
     ValueCase(<<>>, IllegalValue(<<>>), TokenType.EOF),
     ValueCase(<<Lx.lbrace, Lx.one, Lx.colon, Lx.one, Lx.rbrace>>,
               IllegalValue(Diagnostic.key), TokenType.INT),
     ValueCase(<<Lx.lbrace, Quoted(Lx.hello), Lx.colon, Lx.one, Lx.rbrace>>,
               IllegalValue(Diagnostic.key), TokenType.STRING),
     ValueCase(<<Lx.lbrace, Lx.hello, Lx.one, Lx.rbrace>>,
               IllegalValue(Diagnostic.colon), TokenType.INT),
     ValueCase(<<Lx.lbrace, Lx.hello, Lx.rbrace>>,
               IllegalValue(Diagnostic.colon), TokenType.RBRACE),
     ValueCase(<<Lx.lbrace, Lx.hello>>,
               IllegalValue(Diagnostic.colon), TokenType.EOF),
     ValueCase(<<Lx.dollar>>, VariableValue(<<>>), TokenType.EOF),
     ValueCase(<<Lx.dollar, Lx.one>>, VariableValue(<<>>), TokenType.INT),
     ValueCase(<<Lx.dollar, Lx.rparen>>, VariableValue(<<>>), TokenType.RPAREN),
     ValueCase(<<Lx.lbrace, Lx.hello, Lx.colon, Quoted(Str.world)>>,
               ObjectValue(MapPut(EmptyMap, Lx.hello,
                                  Value("String", Str.world, EmptyMap, <<>>))),
               TokenType.EOF),
     ValueCase(<<Lx.lbrace>>, ObjectValue(EmptyMap), TokenType.EOF),
     ValueCase(<<Lx.lbrace, Lx.hello, Lx.colon, Lx.one, Lx.comma>>,
               ObjectValue(MapPut(EmptyMap, Lx.hello, IntValue(Lx.one))),
               TokenType.EOF),
     ValueCase(<<Lx.lbrace, Lx.hello, Lx.colon, Lx.one, Lx.comma, Lx.v, Lx.colon>>,
               ObjectValue(MapPut(MapPut(EmptyMap, Lx.hello, IntValue(Lx.one)),
                                  Lx.v, IllegalValue(<<>>))),
               TokenType.EOF),
     ValueCase(<<Lx.lbrace, Lx.hello, Lx.colon, Lx.lbrace, Lx.v, Lx.colon, Lx.one>>,
               ObjectValue(MapPut(EmptyMap, Lx.hello,
                   ObjectValue(MapPut(EmptyMap, Lx.v, IntValue(Lx.one))))),
               TokenType.EOF),
     ValueCase(<<Lx.lbracket, Lx.one, Lx.comma, Lx.dollar, Lx.rbracket>>,
               ArrayValue(<<IntValue(Lx.one), VariableValue(<<>>)>>),
               TokenType.EOF),
     ValueCase(<<Lx.lbracket, Lx.one>>,
               ArrayValue(<<IntValue(Lx.one)>>), TokenType.EOF),
     ValueCase(<<Lx.one>>, IntValue(Lx.one), TokenType.EOF),
     ValueCase(<<Lx.true>>, Value("Boolean", Lx.true, EmptyMap, <<>>),
               TokenType.EOF),
     ValueCase(<<Lx.dollar, Lx.v>>, VariableValue(Lx.v), TokenType.EOF),
     ValueCase(<<Lx.lbrace, Lx.hello, Lx.colon, Lx.one, Lx.rbrace>>,
               ObjectValue(MapPut(EmptyMap, Lx.hello, IntValue(Lx.one))),
               TokenType.EOF)}

Calls ==
    {[fn |-> "resolveNestedSelection", res |-> r, ss |-> ss] :
        r \in NestedResults, ss \in NestedSelectionSets} \cup
    {[fn |-> "reflectResolve", source |-> src, field |-> Field(n, <<>>, Nil)] :
        src \in ReflectSources, n \in ReflectNames} \cup
    {[fn |-> "buildValue", val |-> v, variables |-> e] :
        v \in ScalarValues \cup CompositeValues, e \in CallEnvironments} \cup
    {[fn |-> "buildArgs", field |-> Field(Str.dummy, as, Nil), variables |-> e] :
        as \in ArgumentLists, e \in CallEnvironments} \cup
    {[fn |-> "resolveArgument", arg |-> Argument(Str.dummy, v), variables |-> e] :
        v \in ScalarValues \cup {Nil}, e \in CallEnvironments} \cup
    {[fn |-> "parseType", input |-> Flatten(c.form)] : c \in TypeCases(MaxTypeDepth)} \cup
    {[fn |-> "parseType", input |-> Flatten(f)] : f \in NoTypeForms} \cup
    {[fn |-> "parseValue", input |-> Join(c.form)] : c \in ValueCases}

InitCall ==
    /\ QueryResolvers = EmptyMap
    /\ MutationResolvers = EmptyMap
    /\ SubscriptionResolvers = EmptyMap
    /\ registrations = 0
    /\ lastRegistered = [k \in Registries \X FieldNames |-> NoResolver]
    /\ input = <<>>
    /\ variables = EmptyMap
    /\ pc = "start"
    /\ parser = Nil
    /\ doc = Nil
    /\ response = NoData
    /\ err = NoError
    /\ trace = <<>>
    /\ accesses = [g \in 1..NumGoroutines |-> Nil]
    /\ fatal = FALSE
    /\ call \in Calls
    /\ returned = Nil
    /\ lexer = Nil
    /\ tokens = <<>>
    /\ channel = Nil
    /\ subCh = NilValue
    /\ pushed = <<>>
    /\ delivered = <<>>
    /\ executions = [g \in 1..NumGoroutines |-> Nil]

(* the call of the function fn returns r *)
Returns(fn, r) ==
    /\ pc = "start"
    /\ call.fn = fn
    /\ returned' = r
    /\ pc' = "returned"
    /\ UNCHANGED <<QueryResolvers, MutationResolvers, SubscriptionResolvers,
                   registrations, lastRegistered, input, variables, parser, doc,
                   response, err, trace, accesses, fatal, call, lexVars,
                   streamVars, executions>>

CallReflectResolve ==
    \E c \in {call} :
        Returns("reflectResolve",
                IF c.fn = "reflectResolve"
                THEN reflectResolve(c.source, c.field, <<>>)
                ELSE Nil)

CallBuildValue ==
    \E c \in {call} :
        Returns("buildValue",
                IF c.fn = "buildValue"
                THEN Return(buildValue(c.val, c.variables), <<>>)
                ELSE Nil)

CallBuildArgs ==
    \E c \in {call} :
        Returns("buildArgs",
                IF c.fn = "buildArgs"
                THEN Let([args \in {buildArgs(c.field, c.variables)} |->
                         [val |-> GoMap(args.val), err |-> NoError,
                          panic |-> args.panic, trace |-> <<>>]])
                ELSE Nil)

CallResolveArgument ==
    \E c \in {call} :
        Returns("resolveArgument",
                IF c.fn = "resolveArgument"
                THEN resolveArgument(c.arg, c.variables)
                ELSE Nil)

CallResolveNestedSelection ==
    \E c \in {call} :
        Returns("resolveNestedSelection",
                IF c.fn = "resolveNestedSelection"
                THEN resolveNestedSelection(c.res, c.ss, EmptyMap, <<>>)
                ELSE Nil)

(* p := NewParser(NewLexer(input)); typ := p.parseType() *)
CallParseType ==
    \E c \in {call} :
        Returns("parseType",
                IF c.fn = "parseType"
                THEN parseType(NewParser(NewLexer(c.input)))
                ELSE Nil)

(* p := NewParser(NewLexer(input)); val := p.parseValue() *)
CallParseValue ==
    \E c \in {call} :
        Returns("parseValue",
                IF c.fn = "parseValue"
                THEN parseValue(NewParser(NewLexer(c.input)))
                ELSE Nil)

NextCall ==
    \/ CallReflectResolve
    \/ CallBuildValue
    \/ CallResolveArgument
    \/ CallParseType
    \/ CallResolveNestedSelection
    \/ CallBuildArgs
    \/ CallParseValue

SpecCall == InitCall /\ [][NextCall]_vars

(***************************************************************************)
(* The lexer alone: NextToken called again and again on one Lexer, as the  *)
(* lexer tests do, on texts of arbitrary bytes.                            *)
(***************************************************************************)

(* the most bytes of a text given to the lexer *)
MaxBytes == 3

(* the bytes of the texts: NUL, space, `"`, 1, @, a, `{`, and of the bytes *)
(* from 0x80 on 0x80, 0xA9, 0xC3 and 0xE9                                  *)
Bytes == {Ch.nul, Ch.space, Ch.quote, 49, 64, 97, Ch.lbrace, 128, 169, 195, 233}

LexInputs == SeqsUpTo(Bytes, MaxBytes)

(* calls of NextToken on one Lexer: enough to pass the end of every text *)
MaxCalls == MaxBytes + 2

InitLex ==
    /\ QueryResolvers = EmptyMap
    /\ MutationResolvers = EmptyMap
    /\ SubscriptionResolvers = EmptyMap
    /\ registrations = 0
    /\ lastRegistered = [k \in Registries \X FieldNames |-> NoResolver]
    /\ input \in LexInputs
    /\ variables = EmptyMap
    /\ pc = "lexing"
    /\ parser = Nil
    /\ doc = Nil
    /\ response = NoData
    /\ err = NoError
    /\ trace = <<>>
    /\ accesses = [g \in 1..NumGoroutines |-> Nil]
    /\ fatal = FALSE
    /\ call = Nil
    /\ returned = Nil
    /\ lexer = NewLexer(input)
    /\ tokens = <<>>
    /\ channel = Nil
    /\ subCh = NilValue
    /\ pushed = <<>>
    /\ delivered = <<>>
    /\ executions = [g \in 1..NumGoroutines |-> Nil]

(* tok := lexer.NextToken(); the token is kept with the position of the   *)
(* byte it was built at, l.position after skipWhitespace                  *)
CallNextToken ==
    /\ pc = "lexing"
    /\ Len(tokens) < MaxCalls
    /\ \E r \in {NextToken(lexer)} :
          /\ lexer' = r.l
          /\ tokens' = Append(tokens, [tok |-> r.tok,
                                       position |-> skipWhitespace(lexer).position])
    /\ UNCHANGED <<QueryResolvers, MutationResolvers, SubscriptionResolvers,
                   registrations, lastRegistered, input, variables, pc, parser,
                   doc, response, err, trace, accesses, fatal, callVars,
                   streamVars, executions>>

NextLex == CallNextToken

SpecLex == InitLex /\ [][NextLex]_vars

(***************************************************************************)
(* Properties of a handled request (Spec).                                 *)
(***************************************************************************)

(* executeDocument went past its two checks and called executeSelectionSet *)
(* on a selection set that is there                                        *)
Executed ==
    /\ pc \in {"done", "crashed"}
    /\ Len(doc.Definitions) > 0
    /\ doc.Definitions[1].node = "OperationDefinition"
    /\ doc.Definitions[1].SelectionSet # Nil

(* the fields of the top-level selection set *)
RootFields == doc.Definitions[1].SelectionSet.Selections

(* the resolver a root field name stands for: the Query registry's if it *)
(* has one, otherwise the Mutation registry's, otherwise none            *)
RootResolver(name) ==
    IF name \in DOMAIN QueryResolvers THEN QueryResolvers[name]
    ELSE IF name \in DOMAIN MutationResolvers THEN MutationResolvers[name]
    ELSE NoResolver

(* resolving one root field on its own, nested selection included *)
FieldOutcome(f) ==
    LET res == resolveField(NilValue, f, variables, <<>>)
    IN  IF res.panic \/ res.err # NoError \/ f.SelectionSet = Nil
        THEN res
        ELSE resolveNestedSelection(res.val, f.SelectionSet, variables, res.trace)

(* C1: once ParseDocument has returned, a request ends in exactly one of   *)
(* two outcomes, a response {"data": result} or a fault, and never in a    *)
(* crash.                                                                  *)
C1_ResponseOrFault ==
    pc \notin {"idle", "hung"} =>
        /\ pc = "done"
        /\ \/ err = NoError /\ DOMAIN response = {"data"}
           \/ err # NoError /\ response = NoData

(* C3: every resolver the execution invokes is invoked with the absent     *)
(* source and is the Query registry's entry for the field's name, or the   *)
(* Mutation registry's when the Query registry has none; the first root    *)
(* field's resolver gets the built arguments and its result is the field's *)
(* result; a name in neither registry gives the "no resolver found" fault. *)
(* With hello registered to return "world", `{ hello }` yields             *)
(* {"data": {"hello": "world"}}.                                           *)
C3_RootResolution ==
    /\ Executed =>
        /\ \A i \in 1..Len(trace) :
              trace[i].op = "resolver" =>
                  /\ trace[i].source = NilValue
                  /\ trace[i].resolver = RootResolver(trace[i].name)
                  /\ trace[i].registry =
                        IF trace[i].name \in DOMAIN QueryResolvers
                        THEN "query"
                        ELSE "mutation"
        /\ RootFields # <<>> =>
              LET f == RootFields[1]
                  args == buildArgs(f, variables)
                  r == Invoke(RootResolver(f.Name), NilValue, args.val)
              IN  IF RootResolver(f.Name) = NoResolver
                  THEN /\ pc = "done"
                       /\ err = "no resolver found for field"
                       /\ response = NoData
                       /\ trace = <<>>
                  ELSE \/ args.panic
                       \/ /\ trace # <<>>
                          /\ trace[1].op = "resolver"
                          /\ trace[1].name = f.Name
                          /\ trace[1].args = args.val
                          /\ r.err # NoError => pc = "done" /\ err = r.err
                          /\ (pc = "done" /\ err = NoError /\ Len(RootFields) = 1
                                /\ f.SelectionSet = Nil)
                                => response["data"] = GoMap(MapPut(EmptyMap, f.Name, r.val))
    /\ (/\ pc # "idle"
        /\ input = Join(<<Lx.lbrace, Lx.hello, Lx.rbrace>>)
        /\ RootResolver(Str.hello) = "hello")
        => /\ pc = "done"
           /\ err = NoError
           /\ response = [k \in {"data"} |->
                             GoMap(MapPut(EmptyMap, Str.hello, GoString(Str.world)))]

(* C3's case: `{ hello }` answered by a resolver that the Query registry *)
(* holds while the Mutation registry holds another for the same name     *)
C3_Witness ==
    /\ pc = "done"
    /\ input = Join(<<Lx.lbrace, Lx.hello, Lx.rbrace>>)
    /\ Str.hello \in DOMAIN QueryResolvers
    /\ Str.hello \in DOMAIN MutationResolvers
    /\ QueryResolvers[Str.hello] = "hello"
    /\ MutationResolvers[Str.hello] # "hello"
    /\ response = [k \in {"data"} |->
                      GoMap(MapPut(EmptyMap, Str.hello, GoString(Str.world)))]

(* the names of the fields of a selection set, nested ones included *)
RECURSIVE SelectedNames(_)
SelectedNames(ss) ==
    IF ss = Nil
    THEN {}
    ELSE UNION {{ss.Selections[i].Name} \cup SelectedNames(ss.Selections[i].SelectionSet) :
                   i \in 1..Len(ss.Selections)}

(* C4: with no Definitions, or with a first Definition that is not an      *)
(* OperationDefinition, executeDocument returns a fault and a response     *)
(* without "data" and invokes nothing; otherwise every resolver it invokes *)
(* is for a field of the first Definition.                                 *)
C4_FirstDefinitionOnly ==
    pc \in {"done", "crashed"} =>
        IF Len(doc.Definitions) = 0
        THEN pc = "done" /\ err = "no definitions found"
             /\ response = NoData /\ trace = <<>>
        ELSE IF doc.Definitions[1].node # "OperationDefinition"
        THEN pc = "done" /\ err = "unsupported definition type"
             /\ response = NoData /\ trace = <<>>
        ELSE IF doc.Definitions[1].SelectionSet = Nil
        THEN trace = <<>>
        ELSE \A i \in 1..Len(trace) :
                 trace[i].op = "resolver" =>
                     trace[i].name \in SelectedNames(doc.Definitions[1].SelectionSet)

(* C4's case: a second OperationDefinition selects a field that has a *)
(* resolver, and the request is answered from the first alone         *)
C4_Witness ==
    /\ pc = "done"
    /\ err = NoError
    /\ Len(doc.Definitions) = 2
    /\ doc.Definitions[2].node = "OperationDefinition"
    /\ doc.Definitions[2].SelectionSet # Nil
    /\ \E j \in 1..Len(doc.Definitions[2].SelectionSet.Selections) :
          /\ doc.Definitions[2].SelectionSet.Selections[j].Name = Str.names
          /\ RootResolver(Str.names) # NoResolver
    /\ Len(trace) = 1
    /\ trace[1].name = Str.hello

(* C8: a lookup of name n in the registry of kind k gives the resolver of *)
(* the latest Register call for (k, n), and nothing if there was none.    *)
C8_LastRegistrationWins ==
    \A k \in Registries, n \in FieldNames :
        LET m == CASE k = "query" -> QueryResolvers
                   [] k = "mutation" -> MutationResolvers
                   [] k = "subscription" -> SubscriptionResolvers
        IN  IF lastRegistered[<<k, n>>] = NoResolver
            THEN n \notin DOMAIN m
            ELSE n \in DOMAIN m /\ m[n] = lastRegistered[<<k, n>>]

(* C8's case: two Register calls, both for the Query entry of hello, and a *)
(* request that the entry's resolver then answers                         *)
C8_Witness ==
    /\ registrations = 2
    /\ Cardinality({kn \in DOMAIN lastRegistered :
                       lastRegistered[kn] # NoResolver}) = 1
    /\ Str.hello \in DOMAIN QueryResolvers
    /\ QueryResolvers[Str.hello] = "dummyResolver"
    /\ pc = "done"
    /\ trace # <<>>
    /\ trace[1].resolver = "dummyResolver"

(* C9: a handled request has "data" exactly when it has no fault; and when *)
(* root field j is the first whose resolution or nested resolution faults, *)
(* the request ends with that fault, without "data", having invoked what   *)
(* fields 1..j invoke and nothing of a later field.                        *)
C9_FailFast ==
    /\ pc = "done" =>
          /\ err # NoError <=> response = NoData
          /\ err = NoError <=> DOMAIN response = {"data"}
    /\ Executed =>
          \A j \in 1..Len(RootFields) :
              LET out == [i \in 1..j |-> FieldOutcome(RootFields[i])]
              IN  (/\ out[j].err # NoError
                   /\ \A i \in 1..j : ~out[i].panic
                   /\ \A i \in 1..(j - 1) : out[i].err = NoError)
                  => /\ pc = "done"
                     /\ err = out[j].err
                     /\ response = NoData
                     /\ trace = Flatten([i \in 1..j |-> out[i].trace])

(* C9's case: the first of two root fields faults in its resolver, and the *)
(* second, which has a resolver, is not resolved                           *)
C9_Witness ==
    /\ pc = "done"
    /\ err = "dummy failure"
    /\ response = NoData
    /\ Len(RootFields) = 2
    /\ RootResolver(RootFields[2].Name) # NoResolver
    /\ Len(trace) = 1

(* C10: a root field with a nested selection set whose resolver returns a  *)
(* slice of n elements has as its result a slice of n maps, element i the  *)
(* result of executing the nested selection set on element i.  With the    *)
(* resolver returning the records Alice and Bob, `{ names { Name } }`      *)
(* yields [{"Name": "Alice"}, {"Name": "Bob"}].                            *)
C10_SliceFanOut ==
    /\ (Executed /\ pc = "done" /\ err = NoError) =>
          \A j \in 1..Len(RootFields) :
              LET f == RootFields[j]
                  res == resolveField(NilValue, f, variables, <<>>)
                  out == response["data"].m[f.Name]
              IN  (/\ f.SelectionSet # Nil
                   /\ res.val.kind = "slice"
                   /\ \A i \in (j + 1)..Len(RootFields) : RootFields[i].Name # f.Name)
                  => /\ out.kind = "slice"
                     /\ Len(out.elems) = Len(res.val.elems)
                     /\ \A i \in 1..Len(out.elems) :
                           out.elems[i] =
                              executeSelectionSet(res.val.elems[i], f.SelectionSet,
                                                  variables, <<>>).val
    /\ (/\ pc # "idle"
        /\ input = Join(<<Lx.lbrace, Lx.names, Lx.lbrace, Lx.Name, Lx.rbrace, Lx.rbrace>>)
        /\ RootResolver(Str.names) = "names")
        => /\ pc = "done"
           /\ err = NoError
           /\ response =
                 [k \in {"data"} |->
                     GoMap(MapPut(EmptyMap, Str.names,
                         GoSlice(<<GoMap(MapPut(EmptyMap, Str.Name, GoString(Str.Alice))),
                                   GoMap(MapPut(EmptyMap, Str.Name, GoString(Str.Bob)))>>)))]

(* C10's case: the two records Alice and Bob fanned out in that order *)
C10_Witness ==
    /\ pc = "done"
    /\ err = NoError
    /\ Len(doc.Definitions) = 1
    /\ Len(RootFields) = 1
    /\ RootFields[1].Name = Str.names
    /\ response["data"].m[Str.names].kind = "slice"
    /\ Len(response["data"].m[Str.names].elems) = 2
    /\ response["data"].m[Str.names].elems[1].m[Str.Name] = GoString(Str.Alice)
    /\ response["data"].m[Str.names].elems[2].m[Str.Name] = GoString(Str.Bob)

(***************************************************************************)
(* Properties of parsing (SpecParse).                                      *)
(***************************************************************************)

(* the operation texts: a keyword form or nothing, then a selection set or *)
(* nothing, each with the Operation it announces                           *)
OperationTexts ==
    {[text |-> Join(pre \o ss),
      operation |-> IF pre = <<>> THEN Keyword.query ELSE pre[1]] :
        pre \in KeywordForms \cup {<<>>}, ss \in SelectionSetForms} \cup
    {[text |-> Join(pre), operation |-> pre[1]] : pre \in KeywordForms}

(* the texts of k well-formed definitions, each with its definitions *)
DefinitionTexts ==
    {[text |-> Join(SequenceForm(ds)), definitions |-> ds] :
        ds \in DefinitionSequences}

(* C2: ParseDocument terminates on every text, at EOF. *)
C2_ParseDocumentTerminates ==
    /\ pc # "hung"
    /\ pc = "parsed" => parser.curToken.Type = TokenType.EOF

(* C5: the parse of an operation text that starts with a keyword or with   *)
(* `{` returns, with exactly one Definition, an OperationDefinition whose  *)
(* Operation is the keyword, or "query" when the text starts with `{`.     *)
C5_OneOperationDefinition ==
    \A t \in OperationTexts :
        input = t.text =>
            /\ pc # "hung"
            /\ pc = "parsed" =>
                  /\ Len(doc.Definitions) = 1
                  /\ doc.Definitions[1].node = "OperationDefinition"
                  /\ doc.Definitions[1].Operation = t.operation

(* C5's case: `mutation { hello }` parsed to its one OperationDefinition *)
C5_Witness ==
    /\ pc = "parsed"
    /\ input = Join(<<Lx.mutation, Lx.lbrace, Lx.hello, Lx.rbrace>>)
    /\ Len(doc.Definitions) = 1
    /\ doc.Definitions[1].Operation = Keyword.mutation
    /\ Len(doc.Definitions[1].SelectionSet.Selections) = 1

(* C6: the parse of k well-formed definitions written one after another    *)
(* yields k Definitions, one per source definition, in source order, each  *)
(* of the declared kind and name.                                          *)
C6_OneDefinitionPerSource ==
    pc = "parsed" =>
        \A t \in DefinitionTexts :
            input = t.text =>
                /\ Len(doc.Definitions) = Len(t.definitions)
                /\ \A i \in 1..Len(t.definitions) :
                      /\ doc.Definitions[i].node = t.definitions[i].node
                      /\ doc.Definitions[i].Name = t.definitions[i].name

(* a lookup or an invocation: the field's name and the source it is for *)
Visit(name, source) == [name |-> name, source |-> source]

(* C22: within one execution the resolvers and field lookups happen       *)
(* depth-first in declared order, one after the other: a root field is    *)
(* resolved after every earlier sibling and that sibling's whole nested   *)
(* selection, and for a slice the nested selection of element i is        *)
(* resolved in full before that of element i+1.  The execution's trace is *)
(* that enumeration, cut where the execution stopped at a fault.          *)
C22_DepthFirstInOrder ==
    Executed =>
        LET Lookups(v, ss) ==
                [j \in 1..Len(ss.Selections) |-> Visit(ss.Selections[j].Name, v)]
            Nested(v, ss) ==
                IF v.kind = "slice"
                THEN Flatten([i \in 1..Len(v.elems) |-> Lookups(v.elems[i], ss)])
                ELSE IF v.kind = "struct" \/ (v.kind = "ptr" /\ v.elem.kind = "struct")
                THEN Lookups(v, ss)
                ELSE <<>>
            Root(f) ==
                IF RootResolver(f.Name) = NoResolver
                THEN <<>>
                ELSE <<Visit(f.Name, NilValue)>> \o
                     (IF f.SelectionSet = Nil
                      THEN <<>>
                      ELSE Nested(Invoke(RootResolver(f.Name), NilValue,
                                         buildArgs(f, variables).val).val,
                                  f.SelectionSet))
            declared == Flatten([k \in 1..Len(RootFields) |-> Root(RootFields[k])])
            happened == [i \in 1..Len(trace) |-> Visit(trace[i].name, trace[i].source)]
        IN  /\ Len(happened) <= Len(declared)
            /\ happened = SubSeq(declared, 1, Len(happened))
            /\ (pc = "done" /\ err = NoError) => happened = declared

(* C22's case: `{ names { Name } hello }` with the records Alice and Bob: *)
(* names, then Name of Alice, then Name of Bob, then hello                *)
C22_Witness ==
    /\ pc = "done"
    /\ err = NoError
    /\ input = Join(<<Lx.lbrace, Lx.names, Lx.lbrace, Lx.Name, Lx.rbrace,
                      Lx.hello, Lx.rbrace>>)
    /\ Len(trace) = 4
    /\ trace[1].name = Str.names
    /\ trace[2].source.fields[1].Val = GoString(Str.Alice)
    /\ trace[3].source.fields[1].Val = GoString(Str.Bob)
    /\ trace[4].name = Str.hello

(* the names of the fields for which a registered resolver was invoked, *)
(* in the order of the invocations                                      *)
RECURSIVE InvokedNames(_)
InvokedNames(tr) ==
    IF tr = <<>>
    THEN <<>>
    ELSE (IF tr[1].op = "resolver" THEN <<tr[1].name>> ELSE <<>>)
         \o InvokedNames(Tail(tr))

(* C28: the registries are consulted for the fields of the top-level     *)
(* selection set only.  The resolvers invoked are those of the first     *)
(* root fields, one each, and every field of a nested selection set is   *)
(* looked up by reflection on its parent value, whatever the parent      *)
(* resolver returned, a slice with a nil element included.               *)
C28_RegistriesAtRootOnly ==
    Executed =>
        LET invoked == InvokedNames(trace)
        IN  /\ Len(invoked) <= Len(RootFields)
            /\ \A k \in 1..Len(invoked) : invoked[k] = RootFields[k].Name
            /\ \A i \in 1..Len(trace) :
                  trace[i].op = "reflect" => trace[i].source # NilValue

(* a selection set text alone and after each of the three keywords *)
KeywordVariants(body) ==
    {Join(body)} \cup
    {Join(<<k>> \o body) : k \in {Lx.query, Lx.mutation, Lx.subscription}}

(* the request ended as the execution r did *)
SameOutcome(r) ==
    /\ pc = (IF r.panic THEN "crashed" ELSE "done")
    /\ r.response = response
    /\ r.err = err
    /\ r.trace = trace

(* C29: the operation keyword has no influence on executeDocument.  Two    *)
(* documents that differ in their keyword only (query, mutation,           *)
(* subscription or none) invoke the same resolvers with the same arguments *)
(* in the same order and return the same response; a field registered as a *)
(* mutation only is executed under `query`; and the Subscription registry  *)
(* is never consulted.                                                     *)
C29_KeywordIgnored ==
    /\ \A body \in {<<Lx.lbrace, Lx.hello, Lx.rbrace>>,
                     <<Lx.lbrace, Lx.names, Lx.lbrace, Lx.Name, Lx.rbrace, Lx.rbrace>>} :
          (pc # "idle" /\ input \in KeywordVariants(body)) =>
              \A q \in KeywordVariants(body) :
                  SameOutcome(executeDocument(ParseTable[q].v, variables))
    /\ Executed =>
          /\ \A k \in {Keyword.query, Keyword.mutation, Keyword.subscription} :
                SameOutcome(executeDocument(
                    [doc EXCEPT !.Definitions[1].Operation = k], variables))
          /\ \A i \in 1..Len(trace) : trace[i].registry # "subscription"
          /\ \A j \in 1..Len(RootFields) :
                (/\ \A i \in 1..j : RootFields[i].Name \notin DOMAIN QueryResolvers
                 /\ \A i \in 1..j : RootFields[i].Name \notin DOMAIN MutationResolvers)
                => /\ pc = "done"
                   /\ err = "no resolver found for field"
                   /\ trace = <<>>
    /\ (/\ pc # "idle"
        /\ input = Join(<<Lx.query, Lx.lbrace, Lx.hello, Lx.rbrace>>)
        /\ Str.hello \notin DOMAIN QueryResolvers
        /\ Str.hello \in DOMAIN MutationResolvers)
        => /\ Len(trace) = 1
           /\ trace[1].registry = "mutation"
           /\ trace[1].resolver = MutationResolvers[Str.hello]
           /\ trace[1].name = Str.hello

(* C29's case: `subscription { hello }` answered by the resolver that the *)
(* Mutation registry alone holds for hello, the Subscription registry     *)
(* holding another                                                        *)
C29_Witness ==
    /\ pc = "done"
    /\ input = Join(<<Lx.subscription, Lx.lbrace, Lx.hello, Lx.rbrace>>)
    /\ Str.hello \notin DOMAIN QueryResolvers
    /\ Str.hello \in DOMAIN MutationResolvers
    /\ MutationResolvers[Str.hello] = "hello"
    /\ Str.hello \in DOMAIN SubscriptionResolvers
    /\ SubscriptionResolvers[Str.hello] # "hello"
    /\ response = [k \in {"data"} |->
                      GoMap(MapPut(EmptyMap, Str.hello, GoString(Str.world)))]

(***************************************************************************)
(* Properties of goroutines (SpecRace).                                    *)
(***************************************************************************)

(* C7: no two goroutines are inside an access of the same registry map at *)
(* the same time with one of them writing.                                *)
C7_NoDataRace ==
    \A g, h \in Goroutines :
        (/\ g # h
         /\ accesses[g] # Nil
         /\ accesses[h] # Nil
         /\ accesses[g].registry = accesses[h].registry)
        => accesses[g].mode = "read" /\ accesses[h].mode = "read"

(***************************************************************************)
(* Properties of subscriptions (SpecSubscription).                         *)
(***************************************************************************)

(* the handler went past its checks and called executeSubscription *)
Subscribed ==
    /\ pc \in {"done", "crashed", "streaming", "torn", "ended"}
    /\ Len(doc.Definitions) > 0
    /\ doc.Definitions[1].node = "OperationDefinition"
    /\ doc.Definitions[1].Operation = Keyword.subscription
    /\ doc.Definitions[1].SelectionSet # Nil
    /\ Len(doc.Definitions[1].SelectionSet.Selections) > 0

(* the field executeSubscription was called for *)
SubscriptionField == doc.Definitions[1].SelectionSet.Selections[1]

(* C11: executeSubscription consults the Subscription registry only.  For  *)
(* a name that registry does not hold it returns the "no subscription      *)
(* resolver found" fault and invokes nothing, whatever the Query and       *)
(* Mutation registries hold; otherwise it invokes that registry's resolver *)
(* once and returns the resolver's fault when it fails, the "did not       *)
(* return a channel" fault when its result is not an event channel, and    *)
(* otherwise the channel object the resolver returned.                     *)
C11_SubscriptionRegistryOnly ==
    Subscribed =>
        LET f == SubscriptionField
            args == buildArgs(f, variables)
        IN  IF f.Name \notin DOMAIN SubscriptionResolvers
            THEN /\ pc = "done"
                 /\ err = "no subscription resolver found for field"
                 /\ subCh = NilValue
                 /\ trace = <<>>
            ELSE \/ args.panic
                 \/ LET r == Invoke(SubscriptionResolvers[f.Name], NilValue, args.val)
                    IN  /\ Len(trace) = 1
                        /\ trace[1].registry = "subscription"
                        /\ trace[1].resolver = SubscriptionResolvers[f.Name]
                        /\ trace[1].args = args.val
                        /\ IF r.err # NoError
                           THEN pc = "done" /\ err = r.err /\ subCh = NilValue
                           ELSE IF ~(r.val.kind = "chan" /\ r.val.elem = "interface{}")
                           THEN /\ pc = "done"
                                /\ err = "subscription resolver did not return a channel"
                                /\ subCh = NilValue
                           ELSE /\ pc \in {"streaming", "torn", "ended"}
                                /\ err = NoError
                                /\ subCh.kind = "chan"
                                /\ subCh.id = r.val.id

(* C11's case: `subscription { hello }` with hello registered as a query *)
(* and as a mutation and not as a subscription ends in the fault         *)
C11_Witness ==
    /\ Subscribed
    /\ SubscriptionField.Name = Str.hello
    /\ Str.hello \in DOMAIN QueryResolvers
    /\ Str.hello \in DOMAIN MutationResolvers
    /\ Str.hello \notin DOMAIN SubscriptionResolvers
    /\ pc = "done"
    /\ err = "no subscription resolver found for field"

CompletedPushes ==
    IF channel.cap = 0 THEN Len(pushed) - Len(channel.buf) ELSE Len(pushed)

(* C27: when a write to the connection fails the loop stops at once and    *)
(* receives no later event; nothing tells the producer: once the loop has  *)
(* stopped, a producer that sends on an unbuffered channel stays blocked   *)
(* in that send for ever; and while the loop runs, a producer on an        *)
(* unbuffered channel completes a send only when the loop has received     *)
(* the event of the send before.                                           *)
C27_NoCancellation ==
    /\ [][pc = "torn" =>
            /\ pc' = "torn"
            /\ delivered' = delivered
            /\ (channel.cap = 0 /\ channel.buf # <<>>) =>
                  channel' = channel /\ pushed' = pushed]_vars
    /\ [][(pc = "streaming" /\ pc' = "torn") =>
            /\ Len(delivered') = Len(delivered) + 1
            /\ pushed' = pushed]_vars
    /\ []((pc \in {"streaming", "torn"} /\ channel.cap = 0) =>
            /\ Len(channel.buf) <= 1
            /\ CompletedPushes = Len(delivered))

(* C27's case: the write of the first event failed, the loop stopped, and *)
(* the producer of an unbuffered channel is held in its second send       *)
C27_Witness ==
    /\ pc = "torn"
    /\ subCh.id = "userSubscriptionResolver"
    /\ channel.cap = 0
    /\ delivered = <<"event1">>
    /\ pushed = <<"event1", "event2">>
    /\ channel.buf = <<"event2">>

(***************************************************************************)
(* Properties of executions that share a Document (SpecShared).            *)
(***************************************************************************)

(* C13: no step of an execution changes the shared Document; and every     *)
(* execution, however its steps are interleaved with those of the others,  *)
(* ends as executeDocument run on its own on the Document as built, with   *)
(* the execution's variables, ends: same response, same fault, or the same *)
(* crash.                                                                  *)
C13_DocumentImmutable ==
    /\ [][pc = "shared" => doc' = doc]_vars
    /\ [](pc = "shared" =>
            \A g \in Goroutines :
                (executions[g] # Nil /\ executions[g].status # "running") =>
                    LET alone == executeDocument(SharedParseTable[input].v,
                                                 executions[g].variables)
                    IN  /\ alone.panic <=> executions[g].status = "crashed"
                        /\ ~alone.panic =>
                              /\ executions[g].result = alone.response
                              /\ executions[g].err = alone.err)

(* C13's case: on `{ hello(fail: $v) names { Name } }`, the execution     *)
(* with v = true has run from start to its fault while the execution      *)
(* without v was between its first and its second root field              *)
C13_Witness ==
    /\ pc = "shared"
    /\ Len(doc.Definitions) = 1
    /\ doc.Definitions[1].node = "OperationDefinition"
    /\ doc.Definitions[1].SelectionSet # Nil
    /\ Len(doc.Definitions[1].SelectionSet.Selections) = 2
    /\ executions[1] # Nil
    /\ executions[2] # Nil
    /\ executions[1].variables = EmptyMap
    /\ executions[1].status = "running"
    /\ executions[1].i = 2
    /\ DOMAIN executions[1].result = {Str.hello}
    /\ executions[2].variables = MapPut(EmptyMap, Lx.v, GoBool(TRUE))
    /\ executions[2].status = "returned"
    /\ executions[2].err = "dummy failure"

(***************************************************************************)
(* Properties of the direct calls (SpecCall).                              *)
(***************************************************************************)

(* the call of fn has returned *)
Called(fn) == pc = "returned" /\ call.fn = fn

(* the record a source is or points to, Nil when it is neither *)
RecordOf(source) ==
    IF source.kind = "struct"
    THEN source
    ELSE IF source.kind = "ptr" /\ source.elem.kind = "struct"
    THEN source.elem
    ELSE Nil

(* C14: reflectResolve on a record or on a non-nil reference to one       *)
(* returns the value of the first field, in declaration order, whose      *)
(* identifier or tag name equals the requested name; it returns a fault   *)
(* when no field matches, when the source is a nil reference and when it  *)
(* is not a record; and it never crashes, whatever the record's fields.   *)
C14_ReflectResolve ==
    Called("reflectResolve") =>
        LET rec == RecordOf(call.source)
            name == call.field.Name
            Matches(i) ==
                \/ EqualFold(rec.fields[i].Name, name)
                \/ /\ rec.fields[i].hasTag
                   /\ EqualFold(TagName(rec.fields[i].Tag), name)
            matching == {i \in 1..Len(rec.fields) : Matches(i)}
        IN  /\ ~returned.panic
            /\ IF rec = Nil
               THEN returned.err # NoError /\ returned.val = NilValue
               ELSE IF matching = {}
               THEN /\ returned.err = "no resolver found via reflection"
                    /\ returned.val = NilValue
               ELSE /\ returned.err = NoError
                    /\ returned.val =
                         rec.fields[CHOOSE i \in matching :
                                        \A j \in matching : i <= j].Val

(* the kinds of scalar values *)
ScalarKinds == {"Variable", "Int", "Boolean", "String", "Enum", "Illegal"}

(* C15: buildValue never faults on a scalar value: a Variable absent from  *)
(* the environment yields nil (a present one its value), an Int whose      *)
(* literal does not parse, a digit run beyond the integer width included,  *)
(* yields 0 (one that parses its value), a Boolean yields true exactly     *)
(* when its literal is "true", and a String, Enum or Illegal value yields  *)
(* its literal unchanged.                                                  *)
C15_BuildValueTotal ==
    (Called("buildValue") /\ call.val.Kind \in ScalarKinds) =>
        LET val == call.val
            parses == (<<52, 50>> :> 42) @@ (<<48, 48, 55>> :> 7) @@ (<<45, 53>> :> 0 - 5)
        IN  /\ ~returned.panic
            /\ returned.err = NoError
            /\ returned.val =
                 CASE val.Kind = "Variable" ->
                        IF val.Literal \in DOMAIN call.variables
                        THEN call.variables[val.Literal]
                        ELSE NilValue
                   [] val.Kind = "Int" ->
                        IF val.Literal \in DOMAIN parses
                        THEN GoInt(parses[val.Literal])
                        ELSE GoInt(0)
                   [] val.Kind = "Boolean" ->
                        IF val.Literal = Keyword.true
                        THEN GoBool(TRUE)
                        ELSE GoBool(FALSE)
                   [] OTHER -> GoString(val.Literal)

(* buildValue has returned 0 for the Int 9223372036854775808 *)
C15_Witness ==
    /\ Called("buildValue")
    /\ call.val.Kind = "Int"
    /\ call.val.Literal = <<57, 50, 50, 51, 51, 55, 50, 48, 51, 54, 56, 53, 52, 55, 55, 53, 56, 48, 56>>
    /\ returned.val = GoInt(0)

(* the argument of the call of resolveArgument has a scalar value *)
ResolvedScalar ==
    /\ Called("resolveArgument")
    /\ call.arg.Value # Nil
    /\ call.arg.Value.Kind \in ScalarKinds

(* the Variable of the call is absent from the environment *)
AbsentVariable ==
    /\ call.arg.Value.Kind = "Variable"
    /\ call.arg.Value.Literal \notin DOMAIN call.variables

(* C16 as stated: for an Int, String, Boolean, Enum or Illegal value and  *)
(* for a Variable present in the environment resolveArgument returns      *)
(* without fault the value that buildValue returns; for an absent         *)
(* Variable it returns the fault `variable not provided` where buildValue *)
(* returns nil, and that is the one case where the two differ.            *)
C16_SameAsBuildValue ==
    ResolvedScalar =>
        /\ ~returned.panic
        /\ IF AbsentVariable
           THEN /\ returned.err = "variable not provided"
                /\ buildValue(call.arg.Value, call.variables) = NilValue
           ELSE /\ returned.err = NoError
                /\ returned.val = buildValue(call.arg.Value, call.variables)

(* the Int literal of the call is not an integer of 64 bits: it is not an *)
(* optional sign and a run of digits, or the run is too large             *)
UnparsedInt ==
    /\ call.arg.Value.Kind = "Int"
    /\ call.arg.Value.Literal \notin {<<52, 50>>, <<48, 48, 55>>, <<45, 53>>}

(* C16, amended: the two differ in two cases.  For an absent Variable     *)
(* resolveArgument returns the fault `variable not provided` where        *)
(* buildValue returns nil, and for an Int whose literal does not parse it *)
(* returns the fault of the conversion where buildValue returns 0.  In    *)
(* every other case it returns without fault what buildValue returns.     *)
C16_SameButForFaults ==
    ResolvedScalar =>
        /\ ~returned.panic
        /\ CASE AbsentVariable ->
                   /\ returned.err = "variable not provided"
                   /\ returned.val = NilValue
                   /\ buildValue(call.arg.Value, call.variables) = NilValue
             [] UnparsedInt ->
                   /\ returned.err = "strconv.Atoi: parsing"
                   /\ buildValue(call.arg.Value, call.variables) = GoInt(0)
             [] OTHER ->
                   /\ returned.err = NoError
                   /\ returned.val = buildValue(call.arg.Value, call.variables)

(* resolveArgument has returned a fault for the Int 12a *)
C16_Witness ==
    /\ ResolvedScalar
    /\ call.arg.Value.Kind = "Int"
    /\ call.arg.Value.Literal = <<49, 50, 97>>
    /\ returned.err = "strconv.Atoi: parsing"
    /\ buildValue(call.arg.Value, call.variables) = GoInt(0)

(* C19: parseType parses a named type and a list type nested to any depth, *)
(* and a `!` sets NonNull on the level right before it and on no other:    *)
(* [String!]! is a non-null list of non-null String, [String]! leaves the  *)
(* element nullable, [String!] leaves the list nullable, and [[Int]] is a  *)
(* list of lists of Int.  The parser ends on the end of the text.          *)
C19_ParseTypeLevels ==
    Called("parseType") =>
        LET named == Type(Lx.String, FALSE, FALSE, Nil)
            namedNN == Type(Lx.String, TRUE, FALSE, Nil)
            int == Type(Lx.Int, FALSE, FALSE, Nil)
            List(nonNull, elem) == Type(<<>>, nonNull, TRUE, elem)
            lb == Lx.lbracket
            rb == Lx.rbracket
        IN  /\ \A c \in TypeCases(MaxTypeDepth) :
                  call.input = Flatten(c.form) =>
                      /\ returned.v = c.type
                      /\ returned.p.curToken.Type = TokenType.EOF
            /\ call.input = Flatten(<<lb, Lx.String, Lx.bang, rb, Lx.bang>>)
                  => returned.v = List(TRUE, namedNN)
            /\ call.input = Flatten(<<lb, Lx.String, rb, Lx.bang>>)
                  => returned.v = List(TRUE, named)
            /\ call.input = Flatten(<<lb, Lx.String, Lx.bang, rb>>)
                  => returned.v = List(FALSE, namedNN)
            /\ call.input = Flatten(<<lb, lb, Lx.Int, rb, rb>>)
                  => returned.v = List(FALSE, List(FALSE, int))

(* parseType has returned the non-null list of nullable lists of non-null *)
(* Int for [[Int!]]!                                                      *)
C19_Witness ==
    /\ Called("parseType")
    /\ call.input = Flatten(<<Lx.lbracket, Lx.lbracket, Lx.Int, Lx.bang,
                              Lx.rbracket, Lx.rbracket, Lx.bang>>)
    /\ returned.v = Type(<<>>, TRUE, TRUE,
                         Type(<<>>, FALSE, TRUE, Type(Lx.Int, TRUE, FALSE, Nil)))

(***************************************************************************)
(* Properties of the lexer (SpecLex).                                      *)
(***************************************************************************)

(* C17: the token sequence ends with a repeating EOF.  NextToken returns  *)
(* EOF only when every byte of the input has been consumed, and once it   *)
(* has returned EOF every later call returns EOF, for every input, one    *)
(* with a NUL byte before its end included.                               *)
C17_RepeatingEOF ==
    \A i \in 1..Len(tokens) :
        tokens[i].tok.Type = TokenType.EOF =>
            /\ tokens[i].position >= Len(input)
            /\ \A j \in i..Len(tokens) : tokens[j].tok.Type = TokenType.EOF

(* the ASCII letters and the underscore *)
AsciiLetter(ch) == ch \in 65..90 \/ ch \in 97..122 \/ ch = Ch.underscore

(* C18: only ASCII letters and the underscore start an identifier, only   *)
(* ASCII letters, digits and the underscore continue one, and a byte from *)
(* 0x80 on at which a token is built gives one Illegal token whose        *)
(* literal is that byte.                                                  *)
C18_AsciiIdentifiers ==
    \A i \in 1..Len(tokens) :
        LET tok == tokens[i].tok
            at == tokens[i].position + 1
        IN  /\ tok.Type = TokenType.IDENT =>
                  /\ tok.Literal # <<>>
                  /\ AsciiLetter(tok.Literal[1])
                  /\ \A k \in 1..Len(tok.Literal) :
                        AsciiLetter(tok.Literal[k]) \/ isDigit(tok.Literal[k])
            /\ (at <= Len(input) /\ input[at] >= 128) =>
                  /\ tok.Type = TokenType.ILLEGAL
                  /\ tok.Literal = <<input[at]>>

(* the tokens returned before the first EOF token *)
BeforeFirstEOF(toks) ==
    {i \in 1..Len(toks) :
        \A j \in 1..i : toks[j].tok.Type # TokenType.EOF}

(* the token was built at an opening quote that no later quote closes *)
UnterminatedString(t) ==
    /\ t.tok.Type = TokenType.STRING
    /\ \A k \in (t.position + 2)..Len(input) : input[k] # Ch.quote

(* C26: the token sequence is finite and forward-only.  A NextToken call   *)
(* that returns a token other than EOF consumes at least one byte of the   *)
(* input, no call moves the read position backwards, and a text of n bytes *)
(* gives at most n tokens before the first EOF; the token of an            *)
(* unterminated string literal extends to the end of the input: the call   *)
(* that returns it leaves no byte unread.                                  *)
C26_ForwardOnly ==
    [][tokens' # tokens =>
          LET t == tokens'[Len(tokens')]
          IN  /\ lexer'.position >= lexer.position
              /\ lexer'.readPosition >= lexer.readPosition
              /\ t.tok.Type # TokenType.EOF =>
                    /\ lexer.position < Len(input)
                    /\ lexer'.position > lexer.position
              /\ Cardinality(BeforeFirstEOF(tokens')) <= Len(input)
              /\ UnterminatedString(t) => lexer'.position >= Len(input)]_vars

(***************************************************************************)
(* Properties of type definitions (SpecParse).                             *)
(***************************************************************************)

(* C20: the parse of `type N { f1: T1, ..., fk: Tk }` yields one           *)
(* TypeDefinition named N whose Fields are f1..fk in declared order, also  *)
(* when an annotation is a non-null or a list type: annotations are        *)
(* discarded and never contribute a field.                                 *)
C20_AnnotationsDiscarded ==
    pc = "parsed" =>
        \A t \in AnnotatedTypeForms :
            input = Join(t.form) =>
                /\ Len(doc.Definitions) = 1
                /\ doc.Definitions[1].node = "TypeDefinition"
                /\ doc.Definitions[1].Name = t.name
                /\ Len(doc.Definitions[1].Fields) = Len(t.fields)
                /\ \A i \in 1..Len(t.fields) :
                      doc.Definitions[1].Fields[i].Name = t.fields[i]

(***************************************************************************)
(* Properties of nested selections called directly (SpecCall).             *)
(***************************************************************************)

(* a value that is a string, an int or a bool *)
IsScalar(v) == v.kind \in {"string", "int", "bool"}

(* a value that is a nil pointer *)
IsNilReference(v) == v.kind = "ptr" /\ v.elem = NilValue

(* a value that is a record or a pointer to a record *)
IsRecord(v) ==
    \/ v.kind = "struct"
    \/ v.kind = "ptr" /\ v.elem # NilValue /\ v.elem.kind = "struct"

(* the values that are to pass through a nested selection: a nil pointer, *)
(* a scalar, a map, a pointer to what is no record, and a slice whose     *)
(* elements are scalars or nil pointers                                   *)
PassesThrough(v) ==
    \/ IsNilReference(v)
    \/ IsScalar(v)
    \/ v.kind = "map"
    \/ v.kind = "ptr" /\ ~IsRecord(v)
    \/ /\ v.kind = "slice"
       /\ v.elems # <<>>
       /\ \A i \in 1..Len(v.elems) :
             IsScalar(v.elems[i]) \/ IsNilReference(v.elems[i])

(* C21: resolveNestedSelection returns the resolved value unchanged and    *)
(* without fault when it is a nil pointer, or is neither a record, a       *)
(* pointer to a record nor a slice of records: a scalar, a map, a pointer  *)
(* to what is no record, a slice whose elements are scalars or nil         *)
(* pointers.                                                               *)
C21_PassThrough ==
    (Called("resolveNestedSelection") /\ PassesThrough(call.res)) =>
        /\ ~returned.panic
        /\ returned.err = NoError
        /\ returned.val = call.res

(***************************************************************************)
(* Properties of composite arguments (SpecCall).                           *)
(***************************************************************************)

(* C23: buildValue maps an Array of n elements to a slice of the n built   *)
(* values in the same order, and an Object to a map with the same keys     *)
(* whose values are the built field values, at any depth and with the      *)
(* variables substituted inside: [1, 2, 3] gives [1, 2, 3], and            *)
(* {id: $var1, name: [$var1, 2]} with var1 = 123 gives                     *)
(* {id: 123, name: [123, 2]}.  buildArgs yields a map with one entry per   *)
(* distinct argument name, the built value of an argument of that name.    *)
C23_CompositeValues ==
    /\ (Called("buildValue") /\ call.val.Kind = "Array") =>
          /\ returned.val.kind = "slice"
          /\ Len(returned.val.elems) = Len(call.val.List)
          /\ \A i \in 1..Len(call.val.List) :
                returned.val.elems[i] = buildValue(call.val.List[i], call.variables)
    /\ (Called("buildValue") /\ call.val.Kind = "Object") =>
          /\ returned.val.kind = "map"
          /\ DOMAIN returned.val.m = DOMAIN call.val.ObjectFields
          /\ \A key \in DOMAIN call.val.ObjectFields :
                returned.val.m[key] =
                    buildValue(call.val.ObjectFields[key], call.variables)
    /\ (/\ Called("buildValue")
        /\ call.val = ArrayValue(<<IntValue(<<49>>), IntValue(<<50>>), IntValue(<<51>>)>>))
        => returned.val = GoSlice(<<GoInt(1), GoInt(2), GoInt(3)>>)
    /\ (/\ Called("buildValue")
        /\ call.variables = MapPut(EmptyMap, Str.var1, GoInt(123))
        /\ call.val =
              ObjectValue(MapPut(MapPut(EmptyMap, Str.id, VariableValue(Str.var1)),
                                 Str.name,
                                 ArrayValue(<<VariableValue(Str.var1), IntValue(<<50>>)>>))))
        => returned.val =
              GoMap(MapPut(MapPut(EmptyMap, Str.id, GoInt(123)),
                           Str.name, GoSlice(<<GoInt(123), GoInt(2)>>)))
    /\ Called("buildArgs") =>
          LET arguments == call.field.Arguments
          IN  /\ ~returned.panic
              /\ returned.val.kind = "map"
              /\ DOMAIN returned.val.m =
                    {arguments[i].Name : i \in 1..Len(arguments)}
              /\ \A name \in DOMAIN returned.val.m :
                    \E i \in 1..Len(arguments) :
                        /\ arguments[i].Name = name
                        /\ returned.val.m[name] =
                              buildValue(arguments[i].Value, call.variables)

(* buildValue has returned {id: 123, name: [123, 2]} for                  *)
(* {id: $var1, name: [$var1, 2]}                                          *)
C23_Witness ==
    /\ Called("buildValue")
    /\ call.val.Kind = "Object"
    /\ DOMAIN call.val.ObjectFields = {Str.id, Str.name}
    /\ call.val.ObjectFields[Str.id].Kind = "Variable"
    /\ returned.val =
          GoMap(MapPut(MapPut(EmptyMap, Str.id, GoInt(123)),
                       Str.name, GoSlice(<<GoInt(123), GoInt(2)>>)))

(***************************************************************************)
(* Properties of the top level of a document (SpecParse).                  *)
(***************************************************************************)

(* an identifier spelled query, mutation, subscription or type, or a `{` *)
BeginsDefinition(tok) ==
    \/ tok.Type = TokenType.LBRACE
    \/ /\ tok.Type = TokenType.IDENT
       /\ tok.Literal \in {Keyword.query, Keyword.mutation,
                            Keyword.subscription, Keyword.type}

(* C24: at the top level only an identifier spelled query, mutation,      *)
(* subscription or type, or a `{`, begins a Definition.  A pass of        *)
(* ParseDocument that starts at any other token, a string literal whose   *)
(* content is one of the four words included, skips it and leaves         *)
(* Document.Definitions as it was; a pass adds at most one Definition.    *)
C24_TopLevelTokens ==
    [][(pc = "parsing" /\ pc' # "hung") =>
          /\ ~BeginsDefinition(parser.curToken) =>
                doc'.Definitions = doc.Definitions
          /\ Len(doc'.Definitions) <= Len(doc.Definitions) + 1]_vars

(***************************************************************************)
(* C25: a malformed value never raises and is never an absent Value.  An   *)
(* unrecognised token in value position gives an Illegal Value carrying    *)
(* the token's literal, and the token is consumed; an object literal with  *)
(* a missing key or a missing colon gives an Illegal Value whose literal   *)
(* is the diagnostic; a `$` not followed by an identifier gives a Variable *)
(* with an empty name; an object literal cut off by the end of the input   *)
(* gives an Object holding the fields read so far.                         *)
(***************************************************************************)
ValueKinds ==
    {"Int", "String", "Boolean", "Enum", "Variable", "Array", "Object", "Illegal"}

C25_MalformedValuesDegrade ==
    Called("parseValue") =>
        /\ returned.v # Nil
        /\ returned.v.Kind \in ValueKinds
        /\ ~returned.p.hang
        /\ \A c \in ValueCases :
              call.input = Join(c.form) =>
                  /\ returned.v = c.value
                  /\ returned.p.curToken.Type = c.next

C25_Witness ==
    /\ Called("parseValue")
    /\ call.input = Join(<<Lx.dollar, Lx.one>>)
    /\ returned.v = VariableValue(<<>>)
    /\ returned.p.curToken.Type = TokenType.INT

(***************************************************************************)
(* Properties of the Document the executor is given (SpecParse).           *)
(***************************************************************************)

(* the selection set holds only Field nodes whose Arguments all have a *)
(* Value, in its nested selection sets as well                         *)
RECURSIVE CompleteSelectionSet(_)
CompleteSelectionSet(ss) ==
    \A i \in 1..Len(ss.Selections) :
        LET f == ss.Selections[i]
        IN  /\ f.node = "Field"
            /\ \A k \in 1..Len(f.Arguments) : f.Arguments[k].Value # Nil
            /\ f.SelectionSet # Nil => CompleteSelectionSet(f.SelectionSet)

(* C30: the Document ParseDocument returns is complete where the executor  *)
(* reads it, for every text: every OperationDefinition among its           *)
(* Definitions has a SelectionSet, every SelectionSet holds only Field     *)
(* nodes, and every Argument of every Field has a Value.                   *)
C30_CompleteAST ==
    pc = "parsed" =>
        \A i \in 1..Len(doc.Definitions) :
            doc.Definitions[i].node = "OperationDefinition" =>
                /\ doc.Definitions[i].SelectionSet # Nil
                /\ CompleteSelectionSet(doc.Definitions[i].SelectionSet)

====
